---- MODULE Spec2Model ----
(***************************************************************************)
(* A model of the change application engine of osm-live-updates            *)
(* (OsmChangeHandler and the collaborators it drives): the id sets a run   *)
(* keeps, the scratch files, the requests that reach the SPARQL endpoint   *)
(* and the phases of OsmChangeHandler::run, one action per call of run().  *)
(***************************************************************************)
EXTENDS Integers, Sequences, FiniteSets, TLC

(***************************************************************************)
(* Bounds of the model.                                                    *)
(***************************************************************************)
\* Elements in a change file.
MaxElems == 2
\* Reference links (way -> node, relation -> member) held by the endpoint.
MaxEdges == 2
\* Where batching is studied: the largest per-query maximum, and how many
\* nodes more than that a change file may modify.
MaxBatch == 2
\* Where the delete batches are studied: the largest small per-query maximum.
MaxPerQuery == 5
MaxRequests == 2
MaxPrefixes == 1
\* Calls of setPrefixes since the buffers were last cleared, where the
\* pending prefixes are studied.
MaxPending == 2
MaxResults == 3
\* Triples in a triple store an update is executed on.
MaxTriples == 4
\* The latest sequence number of a replication server, and its latest
\* timestamp.
MaxSeq == 3
MaxTime == 3

(***************************************************************************)
(* Program constants (src/src/osm/OsmChangeHandler.cpp:33-36).             *)
(***************************************************************************)
MAX_TRIPLE_COUNT_PER_QUERY == 64
DELETE_TRIPLES_PER_WAY == 3
DELETE_TRIPLES_PER_NODE == 2
DELETE_TRIPLES_PER_RELATION == 2

NODE_TAG == "node"
WAY_TAG == "way"
RELATION_TAG == "relation"
MODIFY_TAG == "modify"
CREATE_TAG == "create"
DELETE_TAG == "delete"

(***************************************************************************)
(* Values.                                                                 *)
(***************************************************************************)
Ref(k, i) == [kind |-> k, id |-> i]

\* A world: the ids of each kind that the change file and the endpoint
\* speak of.
World(nodes, ways, rels) == [nodes |-> nodes, ways |-> ways, rels |-> rels]

NodeRefs(w) == {Ref(NODE_TAG, i) : i \in w.nodes}
WayRefs(w) == {Ref(WAY_TAG, i) : i \in w.ways}
RelRefs(w) == {Ref(RELATION_TAG, i) : i \in w.rels}
AllRefs(w) == NodeRefs(w) \cup WayRefs(w) \cup RelRefs(w)

RECURSIVE BoundedSubsets(_, _)
BoundedSubsets(S, k) ==
    IF k = 0 THEN {{}}
    ELSE LET P == BoundedSubsets(S, k - 1)
         IN  P \cup {T \cup {x} : T \in P, x \in S}

\* An element of a change file: <node|way|relation id=...> inside a
\* <modify|create|delete> section, with its nd / member children.
Element(s, k, i, r) == [section |-> s, kind |-> k, id |-> i, refs |-> r]

Sections == {MODIFY_TAG, CREATE_TAG, DELETE_TAG}

\* An element has no child or one.
OptionalChild(S) == {{}} \cup {{r} : r \in S}

Elements(w) ==
    {Element(s, NODE_TAG, i, {}) : s \in Sections, i \in w.nodes}
    \cup {Element(s, WAY_TAG, i, r) :
            s \in Sections, i \in w.ways, r \in OptionalChild(NodeRefs(w))}
    \cup UNION {{Element(s, RELATION_TAG, i, r) :
                   s \in Sections,
                   r \in OptionalChild(AllRefs(w) \ {Ref(RELATION_TAG, i)})} :
                i \in w.rels}

RECURSIVE SeqOf(_)
SeqOf(S) ==
    IF S = {} THEN <<>>
    ELSE LET x == CHOOSE y \in S : TRUE IN <<x>> \o SeqOf(S \ {x})

\* A reference link of the endpoint's graph: `from` has `to` as a member
\* (osmway:node for ways, osmrel:member for relations).
Edge(f, t) == [from |-> f, to |-> t]

Edges(w) ==
    {Edge(f, n) : f \in WayRefs(w), n \in NodeRefs(w)}
    \cup {e \in {Edge(r, m) : r \in RelRefs(w), m \in AllRefs(w)} : e.from # e.to}

\* The change files of a world: up to n distinct elements.
ChangeFiles(w, n) == {SeqOf(S) : S \in BoundedSubsets(Elements(w), n)}

\* The graphs an endpoint may hold in a world: up to n links.
EndpointStores(w, n) == BoundedSubsets(Edges(w), n)

\* The worlds of the runs: two nodes, a way and a relation; or a way and
\* two relations.
Worlds == {World(1..2, 1..1, 1..1), World({}, 1..1, 1..2)}

\* The change file and the endpoint of a run.
RunInputs ==
    UNION {ChangeFiles(w, MaxElems) \X EndpointStores(w, MaxEdges) : w \in Worlds}

Range(s) == {s[i] : i \in 1..Len(s)}

VARIABLES
    pc,                          \* position of run()
    maxPerQuery,                 \* MAX_TRIPLE_COUNT_PER_QUERY of the build
    osmChangeElement,            \* _osmChangeElement
    endpoint,                    \* the graph held by the SPARQL endpoint
    updateStatus,                \* the status the endpoint answers updates with
    results,                     \* the result rows the endpoint answers a fetch with
    createdNodes, modifiedNodes, deletedNodes,
    createdWays, modifiedWays, deletedWays,
    createdRelations, modifiedRelations, deletedRelations,
    waysToUpdateGeometry, relationsToUpdateGeometry,
    referencedNodes, referencedWays, referencedRelations,
    nodesFile, waysFile, relationsFile,   \* the three scratch .osm files
    ttlOutput,                   \* the converter's output
    triplesFile,                 \* the triples buffer
    sparql,                      \* _sparql: [query, prefixes]
    requests,                    \* what was sent to the endpoint, in order
    httpMethod,                  \* _httpMethod of the wrapper
    returned,                    \* how the wrapper's last runQuery ended
    store,                       \* the triples held by a triple store
    removed,                     \* the triples its last update removed
    server,                      \* the state files of the replication server
    timeStamp,                   \* the argument of fetchDatabaseStateForTimestamp
    state                        \* its local variable `state`

changeSets == <<createdNodes, modifiedNodes, deletedNodes,
                createdWays, modifiedWays, deletedWays,
                createdRelations, modifiedRelations, deletedRelations>>
geometrySets == <<waysToUpdateGeometry, relationsToUpdateGeometry>>
referencedSets == <<referencedNodes, referencedWays, referencedRelations>>
osmFiles == <<nodesFile, waysFile, relationsFile>>
replication == <<server, timeStamp, state>>
inputs == <<maxPerQuery, osmChangeElement, endpoint, updateStatus, results,
            store, removed, replication>>
wrapperIo == <<httpMethod, returned>>

vars == <<pc, inputs, changeSets, geometrySets, referencedSets, osmFiles,
          ttlOutput, triplesFile, sparql, requests, wrapperIo>>

(***************************************************************************)
(* doInBatches: the set in ascending order, cut into consecutive chunks of *)
(* elementsPerBatch ids; the callback is run on each chunk in turn.  The   *)
(* result here is the sequence of chunks.                                  *)
(***************************************************************************)
Min(S) == CHOOSE x \in S : \A y \in S : x <= y

RECURSIVE SortedVector(_)
SortedVector(S) ==
    IF S = {} THEN <<>> ELSE <<Min(S)>> \o SortedVector(S \ {Min(S)})

RECURSIVE Chunks(_, _)
Chunks(vector, elementsPerBatch) ==
    IF vector = <<>> THEN <<>>
    ELSE LET k == IF Len(vector) < elementsPerBatch THEN Len(vector)
                  ELSE elementsPerBatch
         IN  <<{vector[i] : i \in 1..k}>>
             \o Chunks(SubSeq(vector, k + 1, Len(vector)), elementsPerBatch)

\* A doInBatches that hands the callback one id at a time.
doInBatchesOneById(set, elementsPerBatch) == Chunks(SortedVector(set), 1)

\* A doInBatches that runs the callback once on an empty set.
doInBatchesAtLeastOnce(set, elementsPerBatch) ==
    IF set = {} THEN <<{}>> ELSE Chunks(SortedVector(set), elementsPerBatch)

\* A doInBatches that runs the callback on the full chunks only, and leaves
\* out a shorter last one.
doInBatchesFullOnly(set, elementsPerBatch) ==
    SelectSeq(Chunks(SortedVector(set), elementsPerBatch),
              LAMBDA batch : Cardinality(batch) = elementsPerBatch)

doInBatches(set, elementsPerBatch) == Chunks(SortedVector(set), elementsPerBatch)

(***************************************************************************)
(* OsmDataFetcher: each fetch sends one query and reads the ids out of the *)
(* result document.  Query(w, ids) is the query; Answer(q) the ids the     *)
(* endpoint's graph gives for it.                                          *)
(***************************************************************************)
Referencing(fromKind, toKind, ids) ==
    {e.from.id : e \in {x \in endpoint : /\ x.from.kind = fromKind
                                         /\ x.to.kind = toKind
                                         /\ x.to.id \in ids}}

MembersOf(fromKind, toKind, ids) ==
    {e.to.id : e \in {x \in endpoint : /\ x.from.kind = fromKind
                                       /\ x.to.kind = toKind
                                       /\ x.from.id \in ids}}

fetchWaysReferencingNodes(nodeIds) == Referencing(WAY_TAG, NODE_TAG, nodeIds)
fetchRelationsReferencingNodes(nodeIds) == Referencing(RELATION_TAG, NODE_TAG, nodeIds)
fetchRelationsReferencingWays(wayIds) == Referencing(RELATION_TAG, WAY_TAG, wayIds)
fetchRelationsReferencingRelations(relationIds) ==
    Referencing(RELATION_TAG, RELATION_TAG, relationIds)
fetchRelationMembersWay(relIds) == MembersOf(RELATION_TAG, WAY_TAG, relIds)
fetchRelationMembersNode(relIds) == MembersOf(RELATION_TAG, NODE_TAG, relIds)
fetchWaysMembers(wayIds) == MembersOf(WAY_TAG, NODE_TAG, wayIds)
fetchWayMembers(wayId) == MembersOf(WAY_TAG, NODE_TAG, {wayId})
fetchRelationMembers(relationId) ==
    {e.to : e \in {x \in endpoint : x.from = Ref(RELATION_TAG, relationId)}}

\* The location the endpoint holds for osm2rdfgeom:osm_node_<id>.
WktOf(nodeId) == 100 + nodeId

\* The orders in which the endpoint may list the nodes of a result: the
\* query has no ORDER BY.
Listings(nodeIds) ==
    {listing \in [1..Cardinality(nodeIds) -> nodeIds] :
        \A i, j \in 1..Cardinality(nodeIds) : listing[i] = listing[j] => i = j}

\* The locations of the response, one per result, in the order of the
\* endpoint's listing.
fetchNodeLocationsAsWkt(nodeIds, listing) ==
    LET listed == SelectSeq(listing, LAMBDA id : id \in nodeIds)
    IN  [i \in 1..Len(listed) |-> WktOf(listed[i])]

Query(what, ids) == [type |-> "query", what |-> what, ids |-> ids]

\* One query per chunk of doInBatches(set, elementsPerBatch).
BatchQueries(what, set, elementsPerBatch) ==
    LET batches == doInBatches(set, elementsPerBatch)
    IN  [i \in 1..Len(batches) |-> Query(what, batches[i])]

\* One query per id, in ascending order of the ids.
SingleQueries(what, set) ==
    LET vector == SortedVector(set)
    IN  [i \in 1..Len(vector) |-> Query(what, {vector[i]})]

Answer(q) ==
    CASE q.what = "WaysReferencingNodes" -> fetchWaysReferencingNodes(q.ids)
      [] q.what = "RelationsReferencingNodes" -> fetchRelationsReferencingNodes(q.ids)
      [] q.what = "RelationsReferencingWays" -> fetchRelationsReferencingWays(q.ids)
      [] q.what = "RelationsReferencingRelations" ->
            fetchRelationsReferencingRelations(q.ids)
      [] q.what = "RelationMembersWay" -> fetchRelationMembersWay(q.ids)
      [] q.what = "RelationMembersNode" -> fetchRelationMembersNode(q.ids)
      [] q.what = "WaysMembers" -> fetchWaysMembers(q.ids)
      [] OTHER -> {}

\* The ids the queries of kind `what` among qs have brought back.
Fetched(qs, what) ==
    UNION {Answer(qs[i]) : i \in {j \in 1..Len(qs) : qs[j].what = what}}

\* A phase that issues the queries qs in order, and whose f-th query throws
\* (f = 0: none does): the queries whose answers were processed, and the
\* queries that were sent.
Processed(qs, f) == IF f = 0 THEN qs ELSE SubSeq(qs, 1, f - 1)
Sent(qs, f) == IF f = 0 THEN qs ELSE SubSeq(qs, 1, f)

(***************************************************************************)
(* OsmChangeHandler.h: membership of an id in the change file.             *)
(***************************************************************************)
nodeInChangeFile(id) == id \in createdNodes \cup modifiedNodes \cup deletedNodes
wayInChangeFile(id) == id \in createdWays \cup modifiedWays \cup deletedWays
relationInChangeFile(id) ==
    id \in createdRelations \cup modifiedRelations \cup deletedRelations

(***************************************************************************)
(* The state after the constructor: the change file is read and the four   *)
(* scratch files are empty (createOrClearTmpFiles).                        *)
(***************************************************************************)
NoQuery == [type |-> "none"]
NotRun == [kind |-> "none"]
EmptyWrapper == [query |-> NoQuery, prefixes |-> <<>>]

EmptyTmpFiles ==
    /\ nodesFile = <<>> /\ waysFile = <<>> /\ relationsFile = <<>>
    /\ triplesFile = <<>>

EmptyHandler ==
    /\ createdNodes = {} /\ modifiedNodes = {} /\ deletedNodes = {}
    /\ createdWays = {} /\ modifiedWays = {} /\ deletedWays = {}
    /\ createdRelations = {} /\ modifiedRelations = {} /\ deletedRelations = {}
    /\ waysToUpdateGeometry = {} /\ relationsToUpdateGeometry = {}
    /\ referencedNodes = {} /\ referencedWays = {} /\ referencedRelations = {}
    /\ EmptyTmpFiles
    /\ ttlOutput = <<>>
    /\ sparql = EmptyWrapper
    /\ requests = <<>>
    /\ httpMethod = "unset"
    /\ returned = NotRun

\* No triple store is looked at.
EmptyStore == store = {} /\ removed = {}

\* No database state is looked for.
NoState == [sequenceNumber |-> 0, timeStamp |-> 0]
NoReplication == server = <<>> /\ timeStamp = 0 /\ state = NoState

InitHandler ==
    /\ pc = "storeIdsOfElementsInChangeFile"
    /\ results = <<>>
    /\ EmptyStore
    /\ NoReplication
    /\ EmptyHandler

Init ==
    /\ maxPerQuery = MAX_TRIPLE_COUNT_PER_QUERY
    /\ \E input \in RunInputs :
         /\ osmChangeElement = input[1]
         /\ endpoint = input[2]
    /\ updateStatus = "OK"
    /\ InitHandler

(***************************************************************************)
(* Phase 1: storeIdsOfElementsInChangeFile.                                *)
(***************************************************************************)
IdsIn(section, kind) ==
    {osmChangeElement[i].id :
        i \in {j \in 1..Len(osmChangeElement) :
                 /\ osmChangeElement[j].section = section
                 /\ osmChangeElement[j].kind = kind}}

storeIdsOfElementsInChangeFile ==
    /\ pc = "storeIdsOfElementsInChangeFile"
    /\ modifiedNodes' = modifiedNodes \cup IdsIn(MODIFY_TAG, NODE_TAG)
    /\ modifiedWays' = modifiedWays \cup IdsIn(MODIFY_TAG, WAY_TAG)
    /\ modifiedRelations' = modifiedRelations \cup IdsIn(MODIFY_TAG, RELATION_TAG)
    /\ createdNodes' = createdNodes \cup IdsIn(CREATE_TAG, NODE_TAG)
    /\ createdWays' = createdWays \cup IdsIn(CREATE_TAG, WAY_TAG)
    /\ createdRelations' = createdRelations \cup IdsIn(CREATE_TAG, RELATION_TAG)
    /\ deletedNodes' = deletedNodes \cup IdsIn(DELETE_TAG, NODE_TAG)
    /\ deletedWays' = deletedWays \cup IdsIn(DELETE_TAG, WAY_TAG)
    /\ deletedRelations' = deletedRelations \cup IdsIn(DELETE_TAG, RELATION_TAG)
    /\ pc' = "processElementsInChangeFile"
    /\ UNCHANGED <<inputs, wrapperIo, geometrySets, referencedSets, osmFiles, ttlOutput,
                   triplesFile, sparql, requests>>

(***************************************************************************)
(* Phase 2: processElementsInChangeFile.  Elements of modify and create    *)
(* sections are written to the scratch file of their kind, and the         *)
(* references of ways and relations are stored; delete sections are        *)
(* skipped.                                                                *)
(***************************************************************************)
\* A line of a scratch file.
Entry(id, refs, dummy, wkt) == [id |-> id, refs |-> refs, dummy |-> dummy, wkt |-> wkt]

\* A selection that leaves the elements of the delete sections in.
Processed2WithDeletes == osmChangeElement

Processed2 ==
    SelectSeq(osmChangeElement, LAMBDA e : e.section \in {MODIFY_TAG, CREATE_TAG})

\* addToTmpFile for the elements of one kind, in the order of the file.
AddedToTmpFile(elementTag) ==
    LET es == SelectSeq(Processed2, LAMBDA e : e.kind = elementTag)
    IN  [i \in 1..Len(es) |-> Entry(es[i].id, es[i].refs, FALSE, 0)]

\* The nd / member children of the ways and relations of the modify and
\* create sections that refer to an object of kind `kind`.
ChildReferences(parentKind, kind) ==
    {r.id : r \in {x \in UNION {e.refs : e \in {y \in Range(Processed2) :
                                                   y.kind = parentKind}} :
                     x.kind = kind}}

storeIdsOfReferencedNodes ==
    {id \in ChildReferences(WAY_TAG, NODE_TAG) : ~nodeInChangeFile(id)}

storeIdsOfReferencedElements(kind) ==
    CASE kind = NODE_TAG ->
            {id \in ChildReferences(RELATION_TAG, NODE_TAG) : ~nodeInChangeFile(id)}
      [] kind = WAY_TAG ->
            {id \in ChildReferences(RELATION_TAG, WAY_TAG) : ~wayInChangeFile(id)}
      [] kind = RELATION_TAG ->
            {id \in ChildReferences(RELATION_TAG, RELATION_TAG) :
                ~relationInChangeFile(id)}

processElementsInChangeFile ==
    /\ pc = "processElementsInChangeFile"
    /\ referencedNodes' = referencedNodes \cup storeIdsOfReferencedNodes
                            \cup storeIdsOfReferencedElements(NODE_TAG)
    /\ referencedWays' = referencedWays \cup storeIdsOfReferencedElements(WAY_TAG)
    /\ referencedRelations' =
            referencedRelations \cup storeIdsOfReferencedElements(RELATION_TAG)
    /\ nodesFile' = nodesFile \o AddedToTmpFile(NODE_TAG)
    /\ waysFile' = waysFile \o AddedToTmpFile(WAY_TAG)
    /\ relationsFile' = relationsFile \o AddedToTmpFile(RELATION_TAG)
    /\ pc' = "getIdsForGeometryUpdate"
    /\ UNCHANGED <<inputs, wrapperIo, changeSets, geometrySets, ttlOutput, triplesFile,
                   sparql, requests>>

(***************************************************************************)
(* Phase 3: getIdsForGeometryUpdate.                                       *)
(***************************************************************************)
\* The callbacks' filters on the fetched ids.
GeometryWays(wayIds) == {wayId \in wayIds : wayId \notin modifiedWays}
GeometryRelations(relationIds) ==
    {relId \in relationIds : relId \notin modifiedRelations}

\* The set handed to doInBatches for the relations that reference ways.
WaysToFetchRelationsFor == modifiedWays

GeometryQueries ==
    LET q1 == IF modifiedNodes # {}
              THEN BatchQueries("WaysReferencingNodes", modifiedNodes, maxPerQuery)
              ELSE <<>>
        q2 == IF modifiedNodes # {}
              THEN BatchQueries("RelationsReferencingNodes", modifiedNodes, maxPerQuery)
              ELSE <<>>
        updatedWays == modifiedWays \cup waysToUpdateGeometry
                         \cup GeometryWays(Fetched(q1, "WaysReferencingNodes"))
        q3 == IF updatedWays # {}
              THEN BatchQueries("RelationsReferencingWays", WaysToFetchRelationsFor,
                                maxPerQuery)
              ELSE <<>>
        q4 == IF modifiedRelations # {}
              THEN BatchQueries("RelationsReferencingRelations", modifiedRelations,
                                maxPerQuery)
              ELSE <<>>
    IN  q1 \o q2 \o q3 \o q4

getIdsForGeometryUpdate ==
    /\ pc = "getIdsForGeometryUpdate"
    /\ LET queries == GeometryQueries IN \E f \in 0..Len(queries) :
         LET done == Processed(queries, f)
         IN  /\ waysToUpdateGeometry' =
                    waysToUpdateGeometry
                      \cup GeometryWays(Fetched(done, "WaysReferencingNodes"))
             /\ relationsToUpdateGeometry' =
                    relationsToUpdateGeometry
                      \cup GeometryRelations(
                             Fetched(done, "RelationsReferencingNodes")
                               \cup Fetched(done, "RelationsReferencingWays")
                               \cup Fetched(done, "RelationsReferencingRelations"))
             /\ requests' = requests \o Sent(queries, f)
             /\ pc' = IF f = 0 THEN "getReferencedRelations" ELSE "failed"
    /\ UNCHANGED <<inputs, wrapperIo, changeSets, referencedSets, osmFiles, ttlOutput,
                   triplesFile, sparql>>

(***************************************************************************)
(* Phase 4: getReferencedRelations, getReferencedWays, getReferencedNodes. *)
(***************************************************************************)
ReferencedRelationsFilter(relationIds) ==
    {relId \in relationIds : /\ relId \notin relationsToUpdateGeometry
                             /\ relId \notin createdRelations
                             /\ relId \notin modifiedRelations}

ReferencedRelationsQueries ==
    IF relationsToUpdateGeometry # {}
    THEN BatchQueries("RelationsReferencingRelations", relationsToUpdateGeometry,
                      maxPerQuery)
    ELSE <<>>

getReferencedRelations ==
    /\ pc = "getReferencedRelations"
    /\ LET queries == ReferencedRelationsQueries IN \E f \in 0..Len(queries) :
         LET done == Processed(queries, f)
         IN  /\ referencedRelations' =
                    referencedRelations
                      \cup ReferencedRelationsFilter(
                             Fetched(done, "RelationsReferencingRelations"))
             /\ requests' = requests \o Sent(queries, f)
             /\ pc' = IF f = 0 THEN "getReferencedWays" ELSE "failed"
    /\ UNCHANGED <<inputs, wrapperIo, changeSets, geometrySets, referencedNodes,
                   referencedWays, osmFiles, ttlOutput, triplesFile, sparql>>

\* A callback that stores no fetched way id.
ReferencedWaysFilterNone(wayIds) == {}

ReferencedWaysFilter(wayIds) ==
    {wayId \in wayIds : /\ wayId \notin waysToUpdateGeometry
                        /\ wayId \notin createdWays
                        /\ wayId \notin modifiedWays}

ReferencedWaysQueries ==
    LET relationsToFetchWaysFor == referencedRelations \cup relationsToUpdateGeometry
    IN  IF relationsToFetchWaysFor # {}
        THEN BatchQueries("RelationMembersWay", relationsToFetchWaysFor, maxPerQuery)
        ELSE <<>>

getReferencedWays ==
    /\ pc = "getReferencedWays"
    /\ LET queries == ReferencedWaysQueries IN \E f \in 0..Len(queries) :
         LET done == Processed(queries, f)
         IN  /\ referencedWays' =
                    referencedWays
                      \cup ReferencedWaysFilter(Fetched(done, "RelationMembersWay"))
             /\ requests' = requests \o Sent(queries, f)
             /\ pc' = IF f = 0 THEN "getReferencedNodes" ELSE "failed"
    /\ UNCHANGED <<inputs, wrapperIo, changeSets, geometrySets, referencedNodes,
                   referencedRelations, osmFiles, ttlOutput, triplesFile, sparql>>

\* A callback that stores every fetched node id.
ReferencedNodesUnfiltered(nodeIds) == nodeIds

ReferencedNodesFilter(nodeIds) == {nodeId \in nodeIds : ~nodeInChangeFile(nodeId)}

ReferencedNodesQueries ==
    LET relationsToFetchNodesFor == referencedRelations \cup relationsToUpdateGeometry
        waysToFetchNodesFor == referencedWays \cup waysToUpdateGeometry
        q1 == IF relationsToFetchNodesFor # {}
              THEN BatchQueries("RelationMembersNode", relationsToFetchNodesFor,
                                maxPerQuery)
              ELSE <<>>
        q2 == IF waysToFetchNodesFor # {}
              THEN BatchQueries("WaysMembers", waysToFetchNodesFor, maxPerQuery)
              ELSE <<>>
    IN  q1 \o q2

getReferencedNodes ==
    /\ pc = "getReferencedNodes"
    /\ LET queries == ReferencedNodesQueries IN \E f \in 0..Len(queries) :
         LET done == Processed(queries, f)
         IN  /\ referencedNodes' =
                    referencedNodes
                      \cup ReferencedNodesFilter(
                             Fetched(done, "RelationMembersNode")
                               \cup Fetched(done, "WaysMembers"))
             /\ requests' = requests \o Sent(queries, f)
             /\ pc' = IF f = 0 THEN "createDummyNodes" ELSE "failed"
    /\ UNCHANGED <<inputs, wrapperIo, changeSets, geometrySets, referencedWays,
                   referencedRelations, osmFiles, ttlOutput, triplesFile, sparql>>

(***************************************************************************)
(* Phase 5: createDummyNodes, createDummyWays, createDummyRelations.       *)
(***************************************************************************)
Concat(ss) ==
    LET RECURSIVE Cat(_)
        Cat(k) == IF k = 0 THEN <<>> ELSE Cat(k - 1) \o ss[k]
    IN  Cat(Len(ss))

DummyNodesQueries == BatchQueries("NodeLocations", referencedNodes, maxPerQuery)

createDummyNodes ==
    /\ pc = "createDummyNodes"
    /\ LET queries == DummyNodesQueries IN \E f \in 0..Len(queries) :
         IF f = 0
         THEN \E listing \in Listings(referencedNodes) :
              LET nodeIds == SortedVector(referencedNodes)
                  pointsAsWkt ==
                      Concat([i \in 1..Len(queries) |->
                                 fetchNodeLocationsAsWkt(queries[i].ids, listing)])
              IN  /\ nodesFile' =
                        nodesFile \o [i \in 1..Len(nodeIds) |->
                                         Entry(nodeIds[i], {}, TRUE, pointsAsWkt[i])]
                  /\ requests' = requests \o queries
                  /\ pc' = "createDummyWays"
         ELSE /\ nodesFile' = nodesFile
              /\ requests' = requests \o Sent(queries, f)
              /\ pc' = "failed"
    /\ UNCHANGED <<inputs, wrapperIo, changeSets, geometrySets, referencedSets, waysFile,
                   relationsFile, ttlOutput, triplesFile, sparql>>

\* The ways for which createDummyWays builds a dummy.
WaysToCreateDummiesFor == referencedWays

DummyWaysQueries == SingleQueries("WayMembers", WaysToCreateDummiesFor)

createWayFromReferences(wayId, nodeRefs) ==
    Entry(wayId, {Ref(NODE_TAG, n) : n \in nodeRefs}, TRUE, 0)

createDummyWays ==
    /\ pc = "createDummyWays"
    /\ LET queries == DummyWaysQueries IN \E f \in 0..Len(queries) :
         LET done == Processed(queries, f)
         IN  /\ waysFile' =
                    waysFile \o [i \in 1..Len(done) |->
                                    LET wayId == Min(done[i].ids)
                                    IN  createWayFromReferences(
                                            wayId, fetchWayMembers(wayId))]
             /\ requests' = requests \o Sent(queries, f)
             /\ pc' = IF f = 0 THEN "createDummyRelations" ELSE "failed"
    /\ UNCHANGED <<inputs, wrapperIo, changeSets, geometrySets, referencedSets, nodesFile,
                   relationsFile, ttlOutput, triplesFile, sparql>>

\* The relations for which createDummyRelations builds a dummy.
RelationsToCreateDummiesFor == referencedRelations

DummyRelationsQueries == SingleQueries("RelationMembers", RelationsToCreateDummiesFor)

createRelationFromReferences(relationId, members) ==
    Entry(relationId, members, TRUE, 0)

createDummyRelations ==
    /\ pc = "createDummyRelations"
    /\ LET queries == DummyRelationsQueries IN \E f \in 0..Len(queries) :
         LET done == Processed(queries, f)
         IN  /\ relationsFile' =
                    relationsFile \o [i \in 1..Len(done) |->
                                         LET relId == Min(done[i].ids)
                                         IN  createRelationFromReferences(
                                                 relId, fetchRelationMembers(relId))]
             /\ requests' = requests \o Sent(queries, f)
             /\ pc' = IF f = 0 THEN "sortFile_node" ELSE "failed"
    /\ UNCHANGED <<inputs, wrapperIo, changeSets, geometrySets, referencedSets, nodesFile,
                   waysFile, ttlOutput, triplesFile, sparql>>

(***************************************************************************)
(* sortFile: the lines of a scratch file, sorted by the id read from each  *)
(* line.  The id (a long long) is kept in an int while sorting, and        *)
(* std::sort leaves the order of lines with equal keys open.  The widths   *)
(* are scaled to what the model's integers hold: an int has 16 bits      *)
(* here, ids have up to 31.                                                *)
(***************************************************************************)
AsInt(id) == ((id + 32768) % 65536) - 32768

SortedByNumber(lines) ==
    {[i \in 1..Len(lines) |-> lines[p[i]]] :
        p \in {q \in Permutations(1..Len(lines)) :
                 \A i \in 1..(Len(lines) - 1) :
                    ~(AsInt(lines[q[i + 1]].id) < AsInt(lines[q[i]].id))}}

sortFile(elementTag) ==
    /\ pc = "sortFile_" \o elementTag
    /\ CASE elementTag = NODE_TAG ->
              /\ nodesFile' \in SortedByNumber(nodesFile)
              /\ pc' = "sortFile_" \o WAY_TAG
              /\ UNCHANGED <<waysFile, relationsFile>>
         [] elementTag = WAY_TAG ->
              /\ waysFile' \in SortedByNumber(waysFile)
              /\ pc' = "sortFile_" \o RELATION_TAG
              /\ UNCHANGED <<nodesFile, relationsFile>>
         [] elementTag = RELATION_TAG ->
              /\ relationsFile' \in SortedByNumber(relationsFile)
              /\ pc' = "convert"
              /\ UNCHANGED <<nodesFile, waysFile>>
    /\ UNCHANGED <<inputs, wrapperIo, changeSets, geometrySets, referencedSets, ttlOutput,
                   triplesFile, sparql, requests>>

(***************************************************************************)
(* Phase 6: the OSM-to-RDF converter, run on the three scratch files.      *)
(***************************************************************************)
Iri(ns, id) == [ns |-> ns, id |-> id]
Triple(s, p, o) == [s |-> s, p |-> p, o |-> o]

OsmNs(kind) ==
    CASE kind = NODE_TAG -> "osmnode:"
      [] kind = WAY_TAG -> "osmway:"
      [] kind = RELATION_TAG -> "osmrel:"

\* The triples of the pos-th line of the scratch file of one kind.
TriplesOfNode(e) ==
    << Triple(Iri("osmnode:", e.id), "geo:hasGeometry",
              Iri("osm2rdfgeom:osm_node_", e.id)),
       Triple(Iri("osm2rdfgeom:osm_node_", e.id), "geo:asWKT",
              Iri("literal", e.wkt)) >>

TriplesOfMembers(subject, linkPredicate, memberPredicate, kind, pos, refs) ==
    Concat([j \in 1..Len(refs) |->
              << Triple(subject, linkPredicate, Iri("_:", <<kind, pos, j>>)),
                 Triple(Iri("_:", <<kind, pos, j>>), memberPredicate,
                        Iri(OsmNs(refs[j].kind), refs[j].id)),
                 Triple(Iri("_:", <<kind, pos, j>>), "osm2rdfmember:pos",
                        Iri("literal", j)) >>])

TriplesOfWay(e, pos) ==
    << Triple(Iri("osmway:", e.id), "rdf:type", Iri("literal", "osm:way")) >>
    \o TriplesOfMembers(Iri("osmway:", e.id), "osmway:node", "osmway:node",
                        WAY_TAG, pos, SeqOf(e.refs))
    \o << Triple(Iri("osm2rdfgeom:osm_wayarea_", e.id), "geo:asWKT",
                 Iri("literal", "way")) >>

TriplesOfRelation(e, pos) ==
    << Triple(Iri("osmrel:", e.id), "rdf:type", Iri("literal", "osm:relation")) >>
    \o TriplesOfMembers(Iri("osmrel:", e.id), "osmrel:member", "osm2rdfmember:id",
                        RELATION_TAG, pos, SeqOf(e.refs))

\* A prefix declaration, the first line of the output.
PrefixLine == Triple(Iri("@prefix", "osmnode:"), ":", Iri("literal", "<...>"))

Osm2ttlConvert ==
    <<PrefixLine>>
    \o Concat([i \in 1..Len(nodesFile) |-> TriplesOfNode(nodesFile[i])])
    \o Concat([i \in 1..Len(waysFile) |-> TriplesOfWay(waysFile[i], i)])
    \o Concat([i \in 1..Len(relationsFile) |-> TriplesOfRelation(relationsFile[i], i)])

\* A run that converts only after the delete query for the nodes is set.
convertAfterDelete ==
    /\ pc = "convert"
    /\ sparql' = [sparql EXCEPT !.query = [type |-> "delete", kind |-> NODE_TAG,
                                           ids |-> deletedNodes \cup modifiedNodes]]
    /\ \E ok \in BOOLEAN :
         IF ok
         THEN /\ ttlOutput' = Osm2ttlConvert
              /\ pc' = "deleteElementsFromDatabase"
         ELSE /\ ttlOutput' = ttlOutput
              /\ pc' = "failed"
    /\ UNCHANGED <<inputs, wrapperIo, changeSets, geometrySets, referencedSets, osmFiles,
                   triplesFile, requests>>

convert ==
    /\ pc = "convert"
    /\ \E ok \in BOOLEAN :
         IF ok
         THEN /\ ttlOutput' = Osm2ttlConvert
              /\ pc' = "deleteElementsFromDatabase"
         ELSE /\ ttlOutput' = ttlOutput
              /\ pc' = "failed"
    /\ UNCHANGED <<inputs, wrapperIo, changeSets, geometrySets, referencedSets, osmFiles,
                   triplesFile, sparql, requests>>

(***************************************************************************)
(* SparqlWrapper: the pending query and prefixes of _sparql.               *)
(***************************************************************************)
setQuery(wrapper, query) == [wrapper EXCEPT !.query = query]
setPrefixes(wrapper, prefixes) == [wrapper EXCEPT !.prefixes = @ \o prefixes]

\* QueryWriter.
writeDeleteQuery(ids, osmTag) == [type |-> "delete", kind |-> osmTag, ids |-> ids]
writeInsertQuery(triples) == [type |-> "insert", triples |-> triples]

(***************************************************************************)
(* Phase 7a: deleteElementsFromDatabase.  For every batch the delete query *)
(* and its prefixes are set on _sparql.                                    *)
(***************************************************************************)
nodesToDelete == deletedNodes \cup modifiedNodes
waysToDelete == deletedWays \cup modifiedWays
relationsToDelete == deletedRelations \cup modifiedRelations

DeletePrefixes(kind) ==
    CASE kind = NODE_TAG -> <<"PREFIXES_FOR_NODE_DELETE_QUERY">>
      [] kind = WAY_TAG -> <<"PREFIXES_FOR_WAY_DELETE_QUERY">>
      [] kind = RELATION_TAG -> <<"PREFIXES_FOR_RELATION_DELETE_QUERY">>

\* A batch size that leaves out the division by the triples per element.
DeleteBatchSizeUndivided(kind) == maxPerQuery

\* The elementsPerBatch handed to doInBatches for each kind.
DeleteBatchSize(kind) ==
    CASE kind = NODE_TAG -> maxPerQuery \div DELETE_TRIPLES_PER_NODE
      [] kind = WAY_TAG -> maxPerQuery \div DELETE_TRIPLES_PER_WAY
      [] kind = RELATION_TAG -> maxPerQuery \div DELETE_TRIPLES_PER_RELATION

\* The delete queries the callbacks build, in the order of the calls.
DeleteQueries ==
    LET of(kind, set, n) ==
            LET batches == doInBatches(set, n)
            IN  [i \in 1..Len(batches) |-> writeDeleteQuery(batches[i], kind)]
    IN  of(NODE_TAG, nodesToDelete, DeleteBatchSize(NODE_TAG))
        \o of(WAY_TAG, waysToDelete, DeleteBatchSize(WAY_TAG))
        \o of(RELATION_TAG, relationsToDelete, DeleteBatchSize(RELATION_TAG))

\* The updates a callback sends to the endpoint for the query it has set:
\* none, the call of runQuery is commented out.
RunDeleteQuery(wrapper) == <<>>

RECURSIVE DeleteCallbacks(_, _, _)
DeleteCallbacks(queries, wrapper, sent) ==
    IF queries = <<>> THEN <<wrapper, sent>>
    ELSE LET w == setPrefixes(setQuery(wrapper, Head(queries)),
                              DeletePrefixes(Head(queries).kind))
         IN  DeleteCallbacks(Tail(queries), w, sent \o RunDeleteQuery(w))

deleteElementsFromDatabase ==
    /\ pc = "deleteElementsFromDatabase"
    /\ LET r == DeleteCallbacks(DeleteQueries, sparql, <<>>)
       IN  /\ sparql' = r[1]
           /\ requests' = requests \o r[2]
    /\ pc' = "insertElementsToDatabase"
    /\ UNCHANGED <<inputs, wrapperIo, changeSets, geometrySets, referencedSets, osmFiles,
                   ttlOutput, triplesFile>>

(***************************************************************************)
(* Phase 7b: insertElementsToDatabase = filterRelevantTriples, then        *)
(* createAndRunInsertQuery.                                                *)
(***************************************************************************)
\* A set of nodes to insert that leaves out the modified ones.
nodesToInsertCreatedOnly == createdNodes

nodesToInsert == createdNodes \cup modifiedNodes
waysToInsert == createdWays \cup modifiedWays \cup waysToUpdateGeometry
relationsToInsert ==
    createdRelations \cup modifiedRelations \cup relationsToUpdateGeometry

\* A filter that keeps every triple whose subject is in no known namespace.
FilterLineKeepOthers(line, relevantMemberIds) ==
    [keep |-> \/ /\ line.s.ns \in {"osmnode:", "osm2rdfgeom:osm_node_"}
                 /\ line.s.id \in nodesToInsert
              \/ /\ line.s.ns \in {"osmway:", "osm2rdfgeom:osm_wayarea_"}
                 /\ line.s.id \in waysToInsert
              \/ /\ line.s.ns \in {"osmrel:", "osm2rdfgeom:osm_relarea_"}
                 /\ line.s.id \in relationsToInsert
              \/ line.s.ns = "_:",
     members |-> relevantMemberIds]

\* A filter that applies the namespace rule and records no member id.
FilterLineNoMembers(line, relevantMemberIds) ==
    [keep |-> \/ /\ line.s.ns \in {"osmnode:", "osm2rdfgeom:osm_node_"}
                 /\ line.s.id \in nodesToInsert
              \/ /\ line.s.ns \in {"osmway:", "osm2rdfgeom:osm_wayarea_"}
                 /\ line.s.id \in waysToInsert
              \/ /\ line.s.ns \in {"osmrel:", "osm2rdfgeom:osm_relarea_"}
                 /\ line.s.id \in relationsToInsert,
     members |-> relevantMemberIds]

\* One line of the converter's output: whether it is written to the triples
\* buffer, and the member ids known after it.
FilterLine(line, relevantMemberIds) ==
    IF line.s.ns = "@prefix"
    THEN [keep |-> FALSE, members |-> relevantMemberIds]
    ELSE IF line.s.ns \in {"osmnode:", "osm2rdfgeom:osm_node_"}
    THEN [keep |-> line.s.id \in nodesToInsert, members |-> relevantMemberIds]
    ELSE IF line.s.ns \in {"osmway:", "osm2rdfgeom:osm_wayarea_"}
    THEN [keep |-> line.s.id \in waysToInsert,
          members |-> IF line.s.id \in waysToInsert /\ line.p = "osmway:node"
                      THEN relevantMemberIds \cup {line.o}
                      ELSE relevantMemberIds]
    ELSE IF line.s.ns \in {"osmrel:", "osm2rdfgeom:osm_relarea_"}
    THEN [keep |-> line.s.id \in relationsToInsert,
          members |-> IF line.s.id \in relationsToInsert /\ line.p = "osmrel:member"
                      THEN relevantMemberIds \cup {line.o}
                      ELSE relevantMemberIds]
    ELSE [keep |-> line.s \in relevantMemberIds, members |-> relevantMemberIds]

RECURSIVE FilterFrom(_, _, _)
FilterFrom(lines, relevantMemberIds, kept) ==
    IF lines = <<>> THEN kept
    ELSE LET r == FilterLine(Head(lines), relevantMemberIds)
         IN  FilterFrom(Tail(lines), r.members,
                        IF r.keep THEN Append(kept, Head(lines)) ELSE kept)

\* The triples buffer after filterRelevantTriples has appended to it.
filterRelevantTriples(buffer, output) == buffer \o FilterFrom(output, {}, <<>>)

\* The batches of consecutive lines of the triples buffer.
RECURSIVE TriplesBatches(_, _)
TriplesBatches(triples, n) ==
    IF triples = <<>> THEN <<>>
    ELSE LET k == IF Len(triples) < n THEN Len(triples) ELSE n
         IN  <<SubSeq(triples, 1, k)>>
             \o TriplesBatches(SubSeq(triples, k + 1, Len(triples)), n)

\* The updates sent for the insert query that has been set: none, the call
\* of runQuery is commented out.
RunInsertQuery(wrapper) == <<>>

RECURSIVE InsertBatches(_, _, _)
InsertBatches(batches, wrapper, sent) ==
    IF batches = <<>> THEN <<wrapper, sent>>
    ELSE LET w == setQuery(setPrefixes(wrapper, <<"DEFAULT_PREFIXES">>),
                           writeInsertQuery(Head(batches)))
         IN  InsertBatches(Tail(batches), w, sent \o RunInsertQuery(w))

insertElementsToDatabase ==
    /\ pc = "insertElementsToDatabase"
    /\ triplesFile' = filterRelevantTriples(triplesFile, ttlOutput)
    /\ LET r == InsertBatches(TriplesBatches(triplesFile', maxPerQuery), sparql, <<>>)
       IN  /\ sparql' = r[1]
           /\ requests' = requests \o r[2]
    /\ pc' = "done"
    /\ UNCHANGED <<inputs, wrapperIo, changeSets, geometrySets, referencedSets, osmFiles,
                   ttlOutput>>

(***************************************************************************)
(* SparqlWrapper::clearCache: the request it sends.  run() has no call of  *)
(* it.                                                                     *)
(***************************************************************************)
clearCache == [type |-> "clearCache"]

(***************************************************************************)
(* OsmChangeHandler::run.                                                  *)
(***************************************************************************)
\* The calls of run(), in order; "done" once it has returned.
RunOrder ==
    <<"storeIdsOfElementsInChangeFile", "processElementsInChangeFile",
      "getIdsForGeometryUpdate", "getReferencedRelations", "getReferencedWays",
      "getReferencedNodes", "createDummyNodes", "createDummyWays",
      "createDummyRelations", "sortFile_node", "sortFile_way",
      "sortFile_relation", "convert", "deleteElementsFromDatabase",
      "insertElementsToDatabase", "done">>

Position(label) == CHOOSE i \in 1..Len(RunOrder) : RunOrder[i] = label

\* The call `label` has returned and no later call has thrown.
Past(label) == pc # "failed" /\ Position(pc) > Position(label)

Next ==
    \/ storeIdsOfElementsInChangeFile
    \/ processElementsInChangeFile
    \/ getIdsForGeometryUpdate
    \/ getReferencedRelations
    \/ getReferencedWays
    \/ getReferencedNodes
    \/ createDummyNodes
    \/ createDummyWays
    \/ createDummyRelations
    \/ \E elementTag \in {NODE_TAG, WAY_TAG, RELATION_TAG} : sortFile(elementTag)
    \/ convert
    \/ deleteElementsFromDatabase
    \/ insertElementsToDatabase

Spec == Init /\ [][Next]_vars


(***************************************************************************)
(* Runs in which the node set is split into several batches: the per-query *)
(* maximum is small, the change file modifies up to MaxBatch + 1 nodes and *)
(* holds at most one way, and the endpoint holds any links between two     *)
(* ways and these nodes.  The runs are followed through phase 3.           *)
(***************************************************************************)
BatchWorld == World(1..(MaxBatch + 1), 1..2, {})

BatchChangeFiles ==
    {SeqOf(N \cup W) :
        N \in SUBSET {Element(MODIFY_TAG, NODE_TAG, i, {}) : i \in BatchWorld.nodes},
        W \in OptionalChild({Element(s, WAY_TAG, 1, {}) : s \in Sections})}

InitBatch ==
    /\ maxPerQuery \in 1..MaxBatch
    /\ osmChangeElement \in BatchChangeFiles
    /\ endpoint \in SUBSET Edges(BatchWorld)
    /\ updateStatus = "OK"
    /\ InitHandler

NextBatch ==
    \/ storeIdsOfElementsInChangeFile
    \/ processElementsInChangeFile
    \/ getIdsForGeometryUpdate

SpecBatch == InitBatch /\ [][NextBatch]_vars


(***************************************************************************)
(* Runs in which the sets to delete are split into several delete queries: *)
(* the per-query maximum is small (from DELETE_TRIPLES_PER_WAY, so that    *)
(* every batch holds an id, to MaxPerQuery) or 1024, the change file       *)
(* deletes any of three ids of each kind, and may modify the third one     *)
(* instead; the endpoint is empty.                                         *)
(***************************************************************************)
DeleteWorld == World(1..3, 1..3, 1..3)

DeleteChangeFiles ==
    LET of(kind, ids) ==
            {{Element(DELETE_TAG, kind, i, {}) : i \in D} : D \in SUBSET ids}
            \cup {{Element(DELETE_TAG, kind, i, {}) : i \in D \ {3}}
                     \cup {Element(MODIFY_TAG, kind, 3, {})} : D \in SUBSET ids}
    IN  {SeqOf(N \cup W \cup R) : N \in of(NODE_TAG, DeleteWorld.nodes),
                                  W \in of(WAY_TAG, DeleteWorld.ways),
                                  R \in of(RELATION_TAG, DeleteWorld.rels)}

InitDelete ==
    /\ maxPerQuery \in (DELETE_TRIPLES_PER_WAY..MaxPerQuery) \cup {1024}
    /\ osmChangeElement \in DeleteChangeFiles
    /\ endpoint = {}
    /\ updateStatus = "OK"
    /\ InitHandler

SpecDelete == InitDelete /\ [][Next]_vars

(***************************************************************************)
(* Runs against an endpoint that answers every update with the envelope    *)
(* {"status": "ERROR", "exception": ...}: change files over two nodes and  *)
(* a way, and an endpoint that holds no link.                              *)
(***************************************************************************)
InitRejecting ==
    /\ maxPerQuery = MAX_TRIPLE_COUNT_PER_QUERY
    /\ osmChangeElement \in ChangeFiles(World(1..2, 1..1, {}), MaxElems)
    /\ endpoint = {}
    /\ updateStatus = "ERROR"
    /\ InitHandler

SpecRejecting == InitRejecting /\ [][Next]_vars

(***************************************************************************)
(* Runs with few triples per insert query: change files over two nodes and *)
(* a way, and an endpoint that holds no link.                              *)
(***************************************************************************)
InitInsert ==
    /\ maxPerQuery \in DELETE_TRIPLES_PER_WAY..MaxPerQuery
    /\ osmChangeElement \in ChangeFiles(World(1..2, 1..1, {}), MaxElems)
    /\ endpoint = {}
    /\ updateStatus = "OK"
    /\ InitHandler

SpecInsert == InitInsert /\ [][Next]_vars

(***************************************************************************)
(* Runs on change files with an id that an int does not hold: node 1, a    *)
(* node with a wide id, and a way; the endpoint holds no link.             *)
(***************************************************************************)
\* An id above the largest int, at the widths of sortFile's model.
WideId == 40000

InitSort ==
    /\ maxPerQuery = MAX_TRIPLE_COUNT_PER_QUERY
    /\ osmChangeElement \in ChangeFiles(World({1, WideId}, 1..1, {}), MaxElems)
    /\ endpoint = {}
    /\ updateStatus = "OK"
    /\ InitHandler

SpecSort == InitSort /\ [][Next]_vars

(***************************************************************************)
(* SparqlWrapper on its own: a client sets the method, the query and the   *)
(* prefixes, and calls runQuery and clearCache in any order, against an    *)
(* endpoint that may reply anything.                                       *)
(***************************************************************************)
EndpointUri == "sparqlEndpointUri"
HTML_VALUE_CONTENT_TYPE == "Content-Type: application/x-www-form-urlencoded"
HTML_VALUE_ACCEPT_SPARQL_RESULT_XML == "Accept: application/sparql-results+xml"

\* URLHelper::encodeForUrlQuery: the text, percent-encoded.
encodeForUrlQuery(text) == [urlEncoded |-> text]

\* What the endpoint may reply: a JSON envelope with a status and an
\* exception, a JSON document without a status, a SPARQL XML results
\* document, or nothing.
Reply(format, status, exception) ==
    [format |-> format, status |-> status, exception |-> exception]
NoReply == Reply("empty", "", "")
Replies ==
    { Reply("json", "ERROR", "exception text"), Reply("json", "OK", ""),
      Reply("json", "", ""), Reply("xml", "", ""), NoReply }

\* The request runQuery performs with the method it reads.
HttpRequest(method, wrapper) ==
    LET encodedQuery == encodeForUrlQuery(<<wrapper.prefixes, wrapper.query>>)
    IN  IF method = "POST"
        THEN [type |-> "http", method |-> "POST", url |-> <<EndpointUri>>,
              header |-> HTML_VALUE_CONTENT_TYPE,
              body |-> <<"query=", encodedQuery>>]
        ELSE [type |-> "http", method |-> "GET",
              url |-> <<EndpointUri, "?query=", encodedQuery>>,
              header |-> HTML_VALUE_ACCEPT_SPARQL_RESULT_XML,
              body |-> <<>>]

\* The request clearCache performs.
ClearCacheRequest ==
    [type |-> "http", method |-> "POST", url |-> <<EndpointUri>>,
     header |-> HTML_VALUE_CONTENT_TYPE, body |-> <<"cmd=clear-cache">>]

Thrown(message, detail) ==
    [kind |-> "thrown", message |-> message, detail |-> detail]
Returned(response) ==
    [kind |-> "returned", message |-> "", detail |-> response]

\* How runQuery ends on a response: it reads the response as JSON, then the
\* field status, then the field exception.
ParseResponse(response) ==
    IF response.format # "json"
    THEN Thrown("Could not parse response from SPARQL endpoint: ", response)
    ELSE IF response.status = ""
    THEN Thrown("ptree_bad_path", "status")
    ELSE IF response.status = "ERROR"
    THEN Thrown("SPARQL endpoint returned status ERROR with exception: ",
                response.exception)
    ELSE Returned(response)

\* A runQuery that leaves the prefixes in place.
AfterRunQueryKeepPrefixes(wrapper, outcome) ==
    IF outcome.kind = "returned" THEN [wrapper EXCEPT !.query = NoQuery]
    ELSE wrapper

\* The wrapper after runQuery: query and prefixes are cleared when it returns.
AfterRunQuery(wrapper, outcome) ==
    IF outcome.kind = "returned" THEN EmptyWrapper ELSE wrapper

\* The method runQuery reads: the one set, or any when none was set.
MethodsRead ==
    IF httpMethod = "unset" THEN {"POST", "GET", "neither"} ELSE {httpMethod}

\* The queries and updates a client sets.
ClientQueries ==
    { Query("WayMembers", {1}), writeDeleteQuery({1}, NODE_TAG),
      writeInsertQuery(TriplesOfNode([id |-> 1, wkt |-> WktOf(1)])) }

wrapperOnly == <<pc, inputs, changeSets, geometrySets, referencedSets, osmFiles,
                 ttlOutput, triplesFile>>

wrapperSetMethod ==
    /\ pc = "wrapper"
    /\ httpMethod' \in {"POST", "GET"}
    /\ httpMethod' # httpMethod
    /\ UNCHANGED <<wrapperOnly, sparql, requests, returned>>

wrapperSetQuery ==
    /\ pc = "wrapper"
    /\ \E query \in ClientQueries : sparql' = setQuery(sparql, query)
    /\ UNCHANGED <<wrapperOnly, requests, wrapperIo>>

wrapperSetPrefixes ==
    /\ pc = "wrapper"
    /\ Len(sparql.prefixes) < MaxPrefixes
    /\ sparql' = setPrefixes(sparql, <<"DEFAULT_PREFIXES">>)
    /\ UNCHANGED <<wrapperOnly, requests, wrapperIo>>

wrapperRunQuery ==
    /\ pc = "wrapper"
    /\ Len(requests) < MaxRequests
    /\ \E method \in MethodsRead, reply \in Replies :
         LET response == IF method = "neither" THEN NoReply ELSE reply
             outcome == ParseResponse(response)
         IN  /\ requests' = IF method = "neither" THEN requests
                            ELSE Append(requests, HttpRequest(method, sparql))
             /\ returned' = outcome
             /\ sparql' = AfterRunQuery(sparql, outcome)
    /\ UNCHANGED <<wrapperOnly, httpMethod>>

wrapperClearCache ==
    /\ pc = "wrapper"
    /\ Len(requests) < MaxRequests
    /\ requests' = Append(requests, ClearCacheRequest)
    /\ UNCHANGED <<wrapperOnly, sparql, wrapperIo>>

InitWrapper ==
    /\ maxPerQuery = MAX_TRIPLE_COUNT_PER_QUERY
    /\ osmChangeElement = <<>>
    /\ endpoint = {}
    /\ updateStatus = "OK"
    /\ results = <<>>
    /\ EmptyStore
    /\ NoReplication
    /\ EmptyHandler
    /\ pc = "wrapper"

NextWrapper ==
    \/ wrapperSetMethod
    \/ wrapperSetQuery
    \/ wrapperSetPrefixes
    \/ wrapperRunQuery
    \/ wrapperClearCache

SpecWrapper == InitWrapper /\ [][NextWrapper]_vars

(***************************************************************************)
(* The pending prefixes of one SparqlWrapper: setPrefixes is called again  *)
(* before the buffers are cleared, as the callbacks of the delete phase do *)
(* and as a caller does after a runQuery that failed.                      *)
(***************************************************************************)
wrapperSetPrefixesAgain ==
    /\ pc = "wrapper"
    /\ Len(sparql.prefixes) < MaxPending
    /\ sparql' = setPrefixes(sparql, <<"DEFAULT_PREFIXES">>)
    /\ UNCHANGED <<wrapperOnly, requests, wrapperIo>>

NextPrefixes ==
    \/ wrapperSetQuery
    \/ wrapperSetPrefixesAgain
    \/ wrapperRunQuery

SpecPrefixes == InitWrapper /\ [][NextPrefixes]_vars

(***************************************************************************)
(* OsmDataFetcher and OsmObjectHelper on their own: one fetch, or one      *)
(* dummy built, from the result rows the endpoint answers with.  A row     *)
(* binds a literal, or a uri made of the uri of a kind and a suffix.       *)
(***************************************************************************)
UriRow(kind, suffix, role) ==
    [binding |-> "uri", kind |-> kind, suffix |-> suffix, role |-> role]
LiteralRow == [binding |-> "literal", kind |-> "", suffix |-> <<>>, role |-> ""]

Suffixes == { <<"1">>, <<"2">>, <<"0">>, <<"-", "1">>, <<"a">> }

Rows ==
    {LiteralRow}
      \cup {UriRow(NODE_TAG, suffix, "") : suffix \in Suffixes}
      \cup {UriRow(WAY_TAG, <<"1">>, role) : role \in {"inner", "outer"}}
      \cup {UriRow(WAY_TAG, <<"0">>, "")}
      \cup {UriRow(RELATION_TAG, <<"1">>, "")}

RECURSIVE RowLists(_)
RowLists(n) ==
    IF n = 0 THEN {<<>>}
    ELSE RowLists(n - 1)
           \cup {Append(rows, row) : rows \in {l \in RowLists(n - 1) : Len(l) = n - 1},
                                     row \in Rows}

\* std::stoll: an optional sign, then the digits up to the first character
\* that is none; it throws when there is no digit.
IsDigit(c) == c \in {"0", "1", "2"}
Digit(c) == CASE c = "0" -> 0 [] c = "1" -> 1 [] c = "2" -> 2

RECURSIVE DigitsValue(_, _)
DigitsValue(text, value) ==
    IF text = <<>> \/ ~IsDigit(Head(text)) THEN value
    ELSE DigitsValue(Tail(text), 10 * value + Digit(Head(text)))

stoll(text) ==
    LET negative == text # <<>> /\ Head(text) = "-"
        digits == IF negative THEN Tail(text) ELSE text
    IN  IF digits = <<>> \/ ~IsDigit(Head(digits))
        THEN [thrown |-> TRUE, value |-> 0]
        ELSE [thrown |-> FALSE,
              value |-> IF negative THEN 0 - DigitsValue(digits, 0)
                        ELSE DigitsValue(digits, 0)]

Terminated == [kind |-> "terminated", message |-> "", detail |-> ""]

\* The loop over the result rows of a fetch that reads the id of an object
\* of the kind osmTag out of every uri: what it has collected (in order)
\* when it ends, and how it ends.  A row without a uri makes the read of
\* binding.uri throw; a suffix stoll cannot read gives the fetcher's
\* exception; a negative id reaches a throw without an exception in flight,
\* which ends the process.
RECURSIVE ExtractIds(_, _, _)
ExtractIds(rows, osmTag, ids) ==
    IF rows = <<>> THEN Returned(ids)
    ELSE LET row == Head(rows)
             parsed == stoll(row.suffix)
         IN  IF row.binding # "uri" THEN Thrown("ptree_bad_path", "binding.uri")
             ELSE IF row.kind # osmTag \/ parsed.thrown
             THEN Thrown("Could extract way id from uri: ", row)
             ELSE IF parsed.value < 0 THEN Terminated
             ELSE ExtractIds(Tail(rows), osmTag, Append(ids, parsed.value))

\* fetchWaysReferencingNodes: the ids in a vector.
fetchWaysReferencingNodesFrom(rows) == ExtractIds(rows, WAY_TAG, <<>>)

\* fetchWayMembers: the ids in a std::set.
fetchWayMembersFrom(rows) ==
    LET outcome == ExtractIds(rows, NODE_TAG, <<>>)
    IN  IF outcome.kind = "returned" THEN Returned(Range(outcome.detail))
        ELSE outcome

\* OsmObjectHelper::createWayFromReferences: one nd per node reference, in
\* the order given.
WayXml(wayId, nodeRefs) == [way |-> wayId, nd |-> nodeRefs]

\* createDummyWays for one way: the members fetched, handed over in the
\* order of the set.
createDummyWay(wayId, rows) ==
    LET outcome == fetchWayMembersFrom(rows)
    IN  IF outcome.kind = "returned"
        THEN Returned(WayXml(wayId, SortedVector(outcome.detail)))
        ELSE outcome

\* A fetchNodeLocationsAsWkt that accepts more locations than node ids.
fetchNodeLocationsAsWktNoSurplusCheck(nodeIds, rows) ==
    IF \E i \in 1..Len(rows) : rows[i].binding # "literal"
    THEN Thrown("ptree_bad_path", "binding.literal")
    ELSE IF Len(rows) < Cardinality(nodeIds)
    THEN Thrown("Exception while trying to fetch nodes locations", "")
    ELSE Returned(rows)

\* fetchNodeLocationsAsWkt on the rows of the response.
fetchNodeLocationsAsWktFrom(nodeIds, rows) ==
    IF \E i \in 1..Len(rows) : rows[i].binding # "literal"
    THEN Thrown("ptree_bad_path", "binding.literal")
    ELSE IF Len(rows) > Cardinality(nodeIds)
    THEN Thrown("Exception while trying to fetch nodes locations", "")
    ELSE IF Len(rows) < Cardinality(nodeIds)
    THEN Thrown("Exception while trying to fetch nodes locations", "")
    ELSE Returned(rows)

\* OsmObjectHelper::createRelationFromReferences: the members that are
\* nodes, then the ways, then the relations.
Member(row) == [type |-> row.kind, ref |-> row.suffix, role |-> row.role]
MembersOfKind(members, kind) ==
    LET picked == SelectSeq(members, LAMBDA row : row.binding = "uri" /\ row.kind = kind)
    IN  [i \in 1..Len(picked) |-> Member(picked[i])]
RelationXml(relationId, members) ==
    [relation |-> relationId,
     member |-> MembersOfKind(members, NODE_TAG)
                  \o MembersOfKind(members, WAY_TAG)
                  \o MembersOfKind(members, RELATION_TAG)]

fetchOnly == <<inputs, changeSets, geometrySets, referencedSets, osmFiles,
               ttlOutput, triplesFile, sparql, httpMethod>>

callFetchNodeLocationsAsWkt ==
    /\ pc = "fetch"
    /\ \E nodeIds \in (SUBSET (1..2)) \ {{}} :
         /\ requests' = Append(requests, Query("NodeLocations", nodeIds))
         /\ returned' = fetchNodeLocationsAsWktFrom(nodeIds, results)
    /\ pc' = "fetchNodeLocationsAsWkt"
    /\ UNCHANGED fetchOnly

callFetchWaysReferencingNodes ==
    /\ pc = "fetch"
    /\ requests' = Append(requests, Query("WaysReferencingNodes", {1}))
    /\ returned' = fetchWaysReferencingNodesFrom(results)
    /\ pc' = "fetchWaysReferencingNodes"
    /\ UNCHANGED fetchOnly

callFetchWayMembers ==
    /\ pc = "fetch"
    /\ requests' = Append(requests, Query("WayMembers", {1}))
    /\ returned' = fetchWayMembersFrom(results)
    /\ pc' = "fetchWayMembers"
    /\ UNCHANGED fetchOnly

callCreateDummyWay ==
    /\ pc = "fetch"
    /\ requests' = Append(requests, Query("WayMembers", {1}))
    /\ returned' = createDummyWay(1, results)
    /\ pc' = "createDummyWay"
    /\ UNCHANGED fetchOnly

callCreateRelationFromReferences ==
    /\ pc = "fetch"
    /\ \A i \in 1..Len(results) : results[i].binding = "uri"
    /\ returned' = Returned(RelationXml(1, results))
    /\ pc' = "createRelationFromReferences"
    /\ UNCHANGED <<fetchOnly, requests>>

InitFetch ==
    /\ maxPerQuery = MAX_TRIPLE_COUNT_PER_QUERY
    /\ osmChangeElement = <<>>
    /\ endpoint = {}
    /\ updateStatus = "OK"
    /\ results \in RowLists(MaxResults)
    /\ EmptyStore
    /\ NoReplication
    /\ EmptyHandler
    /\ pc = "fetch"

NextFetch ==
    \/ callFetchNodeLocationsAsWkt
    \/ callFetchWaysReferencingNodes
    \/ callFetchWayMembers
    \/ callCreateDummyWay
    \/ callCreateRelationFromReferences

SpecFetch == InitFetch /\ [][NextFetch]_vars

(***************************************************************************)
(* The engine from its construction on: the scratch files hold what an     *)
(* earlier engine left in them, the constructor runs, then run().          *)
(***************************************************************************)
StaleId == 9
StaleEntry == Entry(StaleId, {}, FALSE, WktOf(StaleId))
StaleTriple ==
    Triple(Iri("osmnode:", StaleId), "geo:hasGeometry",
           Iri("osm2rdfgeom:osm_node_", StaleId))

\* A createOrClearTmpFiles that leaves the triples buffer as it is.
createOrClearTmpFilesKeepTriples == <<<<>>, <<>>, <<>>, triplesFile>>

\* createOrClearTmpFiles: the four scratch files after it.
createOrClearTmpFiles == <<<<>>, <<>>, <<>>, <<>>>>

construct ==
    /\ pc = "construct"
    /\ nodesFile' = createOrClearTmpFiles[1]
    /\ waysFile' = createOrClearTmpFiles[2]
    /\ relationsFile' = createOrClearTmpFiles[3]
    /\ triplesFile' = createOrClearTmpFiles[4]
    /\ pc' = "storeIdsOfElementsInChangeFile"
    /\ UNCHANGED <<inputs, wrapperIo, changeSets, geometrySets, referencedSets,
                   ttlOutput, sparql, requests>>

InitEngine ==
    /\ pc = "construct"
    /\ maxPerQuery = MAX_TRIPLE_COUNT_PER_QUERY
    /\ osmChangeElement \in ChangeFiles(World(1..2, 1..1, {}), MaxElems)
    /\ endpoint = {}
    /\ updateStatus = "OK"
    /\ results = <<>>
    /\ EmptyStore
    /\ NoReplication
    /\ createdNodes = {} /\ modifiedNodes = {} /\ deletedNodes = {}
    /\ createdWays = {} /\ modifiedWays = {} /\ deletedWays = {}
    /\ createdRelations = {} /\ modifiedRelations = {} /\ deletedRelations = {}
    /\ waysToUpdateGeometry = {} /\ relationsToUpdateGeometry = {}
    /\ referencedNodes = {} /\ referencedWays = {} /\ referencedRelations = {}
    /\ nodesFile \in {<<>>, <<StaleEntry>>}
    /\ waysFile \in {<<>>, <<StaleEntry>>}
    /\ relationsFile \in {<<>>, <<StaleEntry>>}
    /\ triplesFile \in {<<>>, <<StaleTriple>>}
    /\ ttlOutput = <<>>
    /\ sparql = EmptyWrapper
    /\ requests = <<>>
    /\ httpMethod = "unset"
    /\ returned = NotRun

NextEngine == construct \/ Next

SpecEngine == InitEngine /\ [][NextEngine]_vars

(***************************************************************************)
(* The delete query of QueryWriter::writeDeleteQuery, executed on a triple *)
(* store:                                                                  *)
(*   DELETE { ?s ?p1 ?o1 . ?o1 ?p2 ?o2 . }                                 *)
(*   WHERE { VALUES ?s { ns:id ... } ?s ?p1 ?o1 . OPTIONAL { ?o1 ?p2 ?o2. } } *)
(***************************************************************************)
\* The triples a store may hold: a way with a member node behind a blank
\* node, a node with its geometry, and triples whose object is another OSM
\* object.
StoreTriples ==
    { Triple(Iri("osmway:", 1), "osmway:node", Iri("_:", 1)),
      Triple(Iri("_:", 1), "osmway:node", Iri("osmnode:", 1)),
      Triple(Iri("osmnode:", 1), "geo:hasGeometry", Iri("osm2rdfgeom:osm_node_", 1)),
      Triple(Iri("osm2rdfgeom:osm_node_", 1), "geo:asWKT", Iri("literal", 0)),
      Triple(Iri("osmnode:", 2), "rdf:type", Iri("literal", 0)),
      Triple(Iri("osmway:", 1), "ogc:sfContains", Iri("osmnode:", 2)),
      Triple(Iri("osmnode:", 1), "ogc:sfIntersects", Iri("osmway:", 1)) }

Stores == BoundedSubsets(StoreTriples, MaxTriples)

\* The solutions of `VALUES ?s { ... } ?s ?p1 ?o1`: the triples whose
\* subject is one of the listed IRIs.
SubjectStar(triples, query) ==
    {t \in triples : t.s.ns = OsmNs(query.kind) /\ t.s.id \in query.ids}

\* The solutions of `OPTIONAL { ?o1 ?p2 ?o2 }`: the triples whose subject is
\* the object of a triple of the subject star.
OneHop(triples, query) ==
    {u \in triples : \E t \in SubjectStar(triples, query) : u.s = t.o}

\* A template without `?o1 ?p2 ?o2`.
DeleteTemplateStarOnly(triples, query) == SubjectStar(triples, query)

\* The triples the DELETE template names for the solutions.
DeleteTemplate(triples, query) ==
    SubjectStar(triples, query) \cup OneHop(triples, query)

executeDelete ==
    /\ pc = "store"
    /\ \E osmTag \in {NODE_TAG, WAY_TAG, RELATION_TAG}, ids \in SUBSET (1..2) :
         LET query == writeDeleteQuery(ids, osmTag)
         IN  /\ sparql' = setQuery(sparql, query)
             /\ requests' = Append(requests, query)
             /\ removed' = DeleteTemplate(store, query)
             /\ store' = store \ DeleteTemplate(store, query)
    /\ pc' = "executed"
    /\ UNCHANGED <<maxPerQuery, osmChangeElement, endpoint, updateStatus, results,
                   replication, wrapperIo, changeSets, geometrySets, referencedSets, osmFiles,
                   ttlOutput, triplesFile>>

InitStore ==
    /\ pc = "store"
    /\ maxPerQuery = MAX_TRIPLE_COUNT_PER_QUERY
    /\ osmChangeElement = <<>>
    /\ endpoint = {}
    /\ updateStatus = "OK"
    /\ results = <<>>
    /\ store \in Stores
    /\ removed = {}
    /\ NoReplication
    /\ EmptyHandler

NextStore == executeDelete

SpecStore == InitStore /\ [][NextStore]_vars

(***************************************************************************)
(* OsmDataFetcher::fetchDatabaseStateForTimestamp against a replication    *)
(* server that holds the state files of the sequence numbers 0..latest,    *)
(* with timestamps that do not decrease.  Timestamps are numbered in       *)
(* chronological order.                                                    *)
(***************************************************************************)
Servers ==
    UNION {{f \in [0..latest -> 1..MaxTime] :
                \A i, j \in 0..latest : i <= j => f[i] <= f[j]} :
           latest \in 0..MaxSeq}

LatestOf(files) == CHOOSE n \in DOMAIN files : \A m \in DOMAIN files : m <= n

LatestStateRequest == [type |-> "state.txt"]
StateRequest(sequenceNumber) ==
    [type |-> "<n>.state.txt", sequenceNumber |-> sequenceNumber]

\* extractStateFromStateFile on the response to the request for a sequence
\* number: the state of the file, or the exception for a response without
\* `sequenceNumber=`.
fetchDatabaseState(sequenceNumber) ==
    IF sequenceNumber \in DOMAIN server
    THEN Returned([sequenceNumber |-> sequenceNumber,
                   timeStamp |-> server[sequenceNumber]])
    ELSE Thrown("Sequence number of latest database state could not be fetched", "")

stateOnly == <<maxPerQuery, osmChangeElement, endpoint, updateStatus, results,
               store, removed, server, timeStamp, changeSets, geometrySets,
               referencedSets, osmFiles, ttlOutput, triplesFile, sparql, httpMethod>>

fetchLatestDatabaseState ==
    /\ pc = "fetchLatestDatabaseState"
    /\ requests' = Append(requests, LatestStateRequest)
    /\ state' = [sequenceNumber |-> LatestOf(server),
                 timeStamp |-> server[LatestOf(server)]]
    /\ pc' = "while"
    /\ UNCHANGED <<stateOnly, returned>>

\* One pass of the loop of fetchDatabaseStateForTimestamp.
fetchDatabaseStateForTimestamp ==
    /\ pc = "while"
    /\ IF state.timeStamp > timeStamp
       THEN LET seq == state.sequenceNumber - 1
                outcome == fetchDatabaseState(seq)
            IN  /\ requests' = Append(requests, StateRequest(seq))
                /\ IF outcome.kind = "returned"
                   THEN /\ state' = outcome.detail
                        /\ returned' = returned
                        /\ pc' = "while"
                   ELSE /\ state' = state
                        /\ returned' = outcome
                        /\ pc' = "failed"
       ELSE /\ returned' = Returned(state)
            /\ pc' = "return"
            /\ UNCHANGED <<requests, state>>
    /\ UNCHANGED stateOnly

InitState ==
    /\ pc = "fetchLatestDatabaseState"
    /\ maxPerQuery = MAX_TRIPLE_COUNT_PER_QUERY
    /\ osmChangeElement = <<>>
    /\ endpoint = {}
    /\ updateStatus = "OK"
    /\ results = <<>>
    /\ EmptyStore
    /\ server \in Servers
    /\ timeStamp \in 0..MaxTime
    /\ state = NoState
    /\ EmptyHandler

NextState == fetchLatestDatabaseState \/ fetchDatabaseStateForTimestamp

SpecState == InitState /\ [][NextState]_vars

(***************************************************************************)
(* Properties.                                                             *)
(***************************************************************************)
Disjoint(A, B) == A \cap B = {}

\* The ids of each kind that the change file holds, in any section.
ChangeFileNodes == createdNodes \cup modifiedNodes \cup deletedNodes
ChangeFileWays == createdWays \cup modifiedWays \cup deletedWays
ChangeFileRelations ==
    createdRelations \cup modifiedRelations \cup deletedRelations

\* C1: after phase 1, for every change file and each kind, the created,
\* modified and deleted id sets are pairwise disjoint.
C1_ChangeSetsDisjoint ==
    pc # "storeIdsOfElementsInChangeFile" =>
        /\ Disjoint(createdNodes, modifiedNodes)
        /\ Disjoint(createdNodes, deletedNodes)
        /\ Disjoint(modifiedNodes, deletedNodes)
        /\ Disjoint(createdWays, modifiedWays)
        /\ Disjoint(createdWays, deletedWays)
        /\ Disjoint(modifiedWays, deletedWays)
        /\ Disjoint(createdRelations, modifiedRelations)
        /\ Disjoint(createdRelations, deletedRelations)
        /\ Disjoint(modifiedRelations, deletedRelations)

\* C2: after phase 3, every way the endpoint reports as referencing a
\* modified node, and that is no way of the change file, is in
\* waysToUpdateGeometry, however many batches the node set is split into.
C2_WaysOfModifiedNodes ==
    Past("getIdsForGeometryUpdate") =>
        \A wayId \in fetchWaysReferencingNodes(modifiedNodes) :
            wayId \notin ChangeFileWays => wayId \in waysToUpdateGeometry

\* C2 happens: the modified nodes were split into several batches, and a
\* way that no node of the first batch reports is in waysToUpdateGeometry.
C2_Witness ==
    /\ Past("getIdsForGeometryUpdate")
    /\ Len(doInBatches(modifiedNodes, maxPerQuery)) > 1
    /\ \E wayId \in waysToUpdateGeometry :
         wayId \notin
            fetchWaysReferencingNodes(doInBatches(modifiedNodes, maxPerQuery)[1])

\* C3: after phase 3, every relation the endpoint reports as referencing a
\* way of modifiedWays or waysToUpdateGeometry, and that is no relation of
\* the change file, is in relationsToUpdateGeometry.
C3_RelationsOfUpdatedWays ==
    Past("getIdsForGeometryUpdate") =>
        \A relId \in fetchRelationsReferencingWays(
                        modifiedWays \cup waysToUpdateGeometry) :
            relId \notin ChangeFileRelations =>
                relId \in relationsToUpdateGeometry

\* C4: when the run is done, for each kind and each id that is deleted,
\* modified or due a geometry update, a delete query listing that id has
\* been sent to the endpoint.
DeleteSent(kind, id) ==
    \E i \in 1..Len(requests) :
        /\ requests[i].type = "delete"
        /\ requests[i].kind = kind
        /\ id \in requests[i].ids

C4_DeletesIssued ==
    pc = "done" =>
        /\ \A id \in deletedNodes \cup modifiedNodes : DeleteSent(NODE_TAG, id)
        /\ \A id \in deletedWays \cup modifiedWays \cup waysToUpdateGeometry :
              DeleteSent(WAY_TAG, id)
        /\ \A id \in deletedRelations \cup modifiedRelations
                       \cup relationsToUpdateGeometry :
              DeleteSent(RELATION_TAG, id)

\* C5: when the converter is called, every way of waysToUpdateGeometry and
\* every relation of relationsToUpdateGeometry has been fetched from the
\* endpoint and appended to the scratch file of its kind.
DummyIn(file, id) == \E i \in 1..Len(file) : file[i].id = id /\ file[i].dummy

C5_GeometryObjectsFetched ==
    pc = "convert" =>
        /\ \A wayId \in waysToUpdateGeometry : DummyIn(waysFile, wayId)
        /\ \A relId \in relationsToUpdateGeometry : DummyIn(relationsFile, relId)

\* C6: a run that is done has sent exactly one clear-cache request, after
\* every delete and insert update.
C6_OneClearCacheAtEnd ==
    pc = "done" =>
        /\ Cardinality({i \in 1..Len(requests) : requests[i] = clearCache}) = 1
        /\ \A i, j \in 1..Len(requests) :
              requests[i] = clearCache /\ requests[j].type \in {"delete", "insert"}
                 => j < i

\* C7: after phase 4, no node of the change file (created, modified or
\* deleted) is in referencedNodes.
C7_ReferencedNodesNotInChangeFile ==
    Past("getReferencedNodes") =>
        Disjoint(referencedNodes, ChangeFileNodes)

\* C7 happens: phase 4 has fetched a node of the change file as a member
\* of a way or relation it looks at, and has stored another node.
C7_Witness ==
    /\ Past("getReferencedNodes")
    /\ referencedNodes # {}
    /\ \E nodeId \in fetchWaysMembers(referencedWays \cup waysToUpdateGeometry)
                       \cup fetchRelationMembersNode(
                              referencedRelations \cup relationsToUpdateGeometry) :
         nodeId \in ChangeFileNodes

\* C8: after phase 4, no way of the change file is in referencedWays and no
\* relation of the change file is in referencedRelations, deleted ones
\* included.
C8_ReferencedWaysRelationsNotInChangeFile ==
    Past("getReferencedNodes") =>
        /\ Disjoint(referencedWays, ChangeFileWays)
        /\ Disjoint(referencedRelations, ChangeFileRelations)

\* C9: in every state, for each kind, the referenced set is disjoint from
\* the created set, the modified set and the geometry-update set.
C9_ReferencedDisjoint ==
    /\ Disjoint(referencedNodes, createdNodes \cup modifiedNodes)
    /\ Disjoint(referencedWays,
                createdWays \cup modifiedWays \cup waysToUpdateGeometry)
    /\ Disjoint(referencedRelations,
                createdRelations \cup modifiedRelations
                  \cup relationsToUpdateGeometry)

\* C10: after phase 3, waysToUpdateGeometry holds no created, modified or
\* deleted way, and relationsToUpdateGeometry no created, modified or
\* deleted relation.
C10_GeometrySetsNotInChangeFile ==
    Past("getIdsForGeometryUpdate") =>
        /\ Disjoint(waysToUpdateGeometry, ChangeFileWays)
        /\ Disjoint(relationsToUpdateGeometry, ChangeFileRelations)

\* C11: phase 3 sends no query for the relations that reference the
\* modified relations, and every relation of relationsToUpdateGeometry
\* references a modified node or a way of modifiedWays or
\* waysToUpdateGeometry.
C11_NoRelationOfRelationCascade ==
    pc = "getReferencedRelations" =>
        /\ \A i \in 1..Len(requests) :
              requests[i].what # "RelationsReferencingRelations"
        /\ relationsToUpdateGeometry \subseteq
              fetchRelationsReferencingNodes(modifiedNodes)
                \cup fetchRelationsReferencingWays(
                        modifiedWays \cup waysToUpdateGeometry)

\* C12: every delete query that phase 7 builds lists at most N/2 node ids,
\* N/3 way ids or N/2 relation ids, N being the per-query maximum; with
\* N = 1024 these are 512, 341 and 512.
IdsWithin(query, nodes, ways, relations) ==
    Cardinality(query.ids) <=
        CASE query.kind = NODE_TAG -> nodes
          [] query.kind = WAY_TAG -> ways
          [] query.kind = RELATION_TAG -> relations

C12_DeleteBatchSizes ==
    pc = "deleteElementsFromDatabase" =>
        /\ \A i \in 1..Len(DeleteQueries) :
              /\ IdsWithin(DeleteQueries[i], maxPerQuery \div 2,
                           maxPerQuery \div 3, maxPerQuery \div 2)
              /\ maxPerQuery = 1024 => IdsWithin(DeleteQueries[i], 512, 341, 512)
        /\ maxPerQuery = 1024 =>
              /\ DeleteBatchSize(NODE_TAG) = 512
              /\ DeleteBatchSize(WAY_TAG) = 341
              /\ DeleteBatchSize(RELATION_TAG) = 512

\* C12 happens: the nodes to delete are more than one batch holds, and so
\* are the ways; a node-delete query is full with two ids.
C12_Witness ==
    /\ pc = "deleteElementsFromDatabase"
    /\ \E i, j \in 1..Len(DeleteQueries) :
         /\ i < j
         /\ DeleteQueries[i].kind = NODE_TAG /\ DeleteQueries[j].kind = NODE_TAG
         /\ Cardinality(DeleteQueries[i].ids) = 2
         /\ maxPerQuery \div 2 = 2
    /\ \E i, j \in 1..Len(DeleteQueries) :
         /\ i < j
         /\ DeleteQueries[i].kind = WAY_TAG /\ DeleteQueries[j].kind = WAY_TAG

\* C13: against an endpoint that answers updates with status ERROR, a run
\* that has an update to make (an id to delete, a triple to insert) does
\* not end successfully, and sends no clear-cache request.
C13_RejectedUpdateEndsRun ==
    updateStatus = "ERROR" =>
        /\ pc = "done" =>
              /\ nodesToDelete \cup waysToDelete \cup relationsToDelete = {}
              /\ triplesFile = <<>>
        /\ \A i \in 1..Len(requests) : requests[i] # clearCache

\* C14: for an empty change file no delete and no insert update is sent to
\* the endpoint, in any state of the run; none is even set on _sparql.
IsUpdate(query) == query.type \in {"delete", "insert"}

C14_EmptyChangeFileNoUpdate ==
    osmChangeElement = <<>> =>
        /\ \A i \in 1..Len(requests) : ~IsUpdate(requests[i])
        /\ ~IsUpdate(sparql.query)

\* C14 happens: a run on an empty change file is done.
C14_Witness == osmChangeElement = <<>> /\ pc = "done"

\* C15: for a change file with delete sections only, the converter is not
\* called, no insert is sent, and when the run is done a delete query has
\* been sent for every deleted id.
DeleteOnly ==
    /\ osmChangeElement # <<>>
    /\ \A i \in 1..Len(osmChangeElement) : osmChangeElement[i].section = DELETE_TAG

C15_DeleteOnlyRun ==
    DeleteOnly =>
        /\ ~Past("convert")
        /\ \A i \in 1..Len(requests) : requests[i].type # "insert"
        /\ pc = "done" =>
              /\ \A id \in deletedNodes : DeleteSent(NODE_TAG, id)
              /\ \A id \in deletedWays : DeleteSent(WAY_TAG, id)
              /\ \A id \in deletedRelations : DeleteSent(RELATION_TAG, id)

\* C16: once the filter has run, running it again on the same converter
\* output and the same change sets leaves the triples buffer as it is.
C16_FilterTwiceSameBuffer ==
    pc = "done" => filterRelevantTriples(triplesFile, ttlOutput) = triplesFile

\* C17: of the converter's output, a triple with a subject in a node
\* namespace is in the triples buffer iff its id is a created or modified
\* node; with a subject in a way (relation) namespace iff its id is a
\* created or modified way (relation) or one due a geometry update.  So no
\* triple of an object that is only referenced is in the buffer.
NamespaceKind(line) ==
    CASE line.s.ns \in {"osmnode:", "osm2rdfgeom:osm_node_"} -> NODE_TAG
      [] line.s.ns \in {"osmway:", "osm2rdfgeom:osm_wayarea_"} -> WAY_TAG
      [] line.s.ns \in {"osmrel:", "osm2rdfgeom:osm_relarea_"} -> RELATION_TAG
      [] OTHER -> "other"

ToInsert(kind) ==
    CASE kind = NODE_TAG -> createdNodes \cup modifiedNodes
      [] kind = WAY_TAG -> createdWays \cup modifiedWays \cup waysToUpdateGeometry
      [] kind = RELATION_TAG ->
            createdRelations \cup modifiedRelations \cup relationsToUpdateGeometry

OnlyReferenced(kind) ==
    (CASE kind = NODE_TAG -> referencedNodes
       [] kind = WAY_TAG -> referencedWays
       [] kind = RELATION_TAG -> referencedRelations) \ ToInsert(kind)

SameTriple(a, b) ==
    /\ a.s.ns = b.s.ns /\ a.p = b.p /\ a.o.ns = b.o.ns
    /\ a.s.id = b.s.id /\ a.o.id = b.o.id

Kept(line) == \E k \in 1..Len(triplesFile) : SameTriple(triplesFile[k], line)

C17_NamespaceRule ==
    pc = "done" =>
        /\ \A i \in 1..Len(ttlOutput) :
              NamespaceKind(ttlOutput[i]) # "other" =>
                 (Kept(ttlOutput[i])
                    <=> ttlOutput[i].s.id \in ToInsert(NamespaceKind(ttlOutput[i])))
        /\ \A i \in 1..Len(triplesFile) :
              NamespaceKind(triplesFile[i]) # "other" =>
                 triplesFile[i].s.id \notin OnlyReferenced(NamespaceKind(triplesFile[i]))

\* C17 happens: the output holds a triple of a modified node, which is
\* kept, and a triple of an object that is only referenced, which is not.
C17_Witness ==
    /\ pc = "done"
    /\ \E i, j \in 1..Len(ttlOutput) :
         /\ NamespaceKind(ttlOutput[i]) = NODE_TAG
         /\ ttlOutput[i].s.id \in modifiedNodes
         /\ Kept(ttlOutput[i])
         /\ NamespaceKind(ttlOutput[j]) # "other"
         /\ ttlOutput[j].s.id \in OnlyReferenced(NamespaceKind(ttlOutput[j]))
         /\ ~Kept(ttlOutput[j])

\* C18: when a triple kept by the namespace rule has the predicate
\* osmway:node or osmrel:member, the triples that follow it and whose subject
\* is its object are kept too, so the member sub-objects of every way and
\* relation to insert are in the triples buffer.
IsLink(line) ==
    /\ NamespaceKind(line) \in {WAY_TAG, RELATION_TAG}
    /\ line.p \in {"osmway:node", "osmrel:member"}

SubjectIs(line, object) == line.s.ns = object.ns /\ line.s.id = object.id

C18_MembersOfKeptLinksKept ==
    pc = "done" =>
        \A i \in 1..Len(ttlOutput) :
            (IsLink(ttlOutput[i]) /\ Kept(ttlOutput[i])) =>
                \A j \in (i + 1)..Len(ttlOutput) :
                    SubjectIs(ttlOutput[j], ttlOutput[i].o) => Kept(ttlOutput[j])

\* C18 happens: a link triple of a way or relation to insert is kept and
\* a triple of its member sub-object follows it.
C18_Witness ==
    /\ pc = "done"
    /\ \E i \in 1..Len(ttlOutput) :
         /\ IsLink(ttlOutput[i])
         /\ Kept(ttlOutput[i])
         /\ \E j \in (i + 1)..Len(ttlOutput) :
              SubjectIs(ttlOutput[j], ttlOutput[i].o) /\ Kept(ttlOutput[j])

\* C19: a triple of the converter's output whose subject is in no known
\* namespace is in the triples buffer only if its subject is the object of
\* the kept link triple that most recently precedes it, and the triples of
\* the member sub-objects of a way or relation that is not kept are not in
\* the buffer.
MostRecentKeptLink(j) ==
    LET links == {i \in 1..(j - 1) : IsLink(ttlOutput[i]) /\ Kept(ttlOutput[i])}
    IN  {i \in links : \A k \in links : k <= i}

C20_BlankNodesWithTheirLink ==
    pc = "done" =>
        LET batches == TriplesBatches(triplesFile, maxPerQuery)
        IN  \A b \in 1..Len(batches) :
              \A k \in 1..Len(batches[b]) :
                 batches[b][k].s.ns = "_:" =>
                    \E m \in 1..Len(batches[b]) :
                       /\ IsLink(batches[b][m])
                       /\ SubjectIs(batches[b][k], batches[b][m].o)

\* C21: runQuery fails exactly when the response is a JSON envelope with
\* the status ERROR, and the error then carries the envelope's exception
\* field; on every other response it returns the response.
C21_FailsOnlyOnErrorEnvelope ==
    returned.kind = "thrown" =>
        /\ returned.message = "SPARQL endpoint returned status ERROR with exception: "
        /\ returned.detail = "exception text"

\* C22: a query is sent with GET and is in the URL; a delete or insert
\* update is sent with POST and the body update=<encoded>; clear-cache is
\* sent with POST and the body cmd=clear-cache.
IsClearCache(request) == request.body = <<"cmd=clear-cache">>

\* The prefixes and the query a request of runQuery carries.
Carried(request) ==
    IF request.method = "POST" THEN request.body[2].urlEncoded
    ELSE request.url[3].urlEncoded

C22_MethodsAndBodies ==
    \A i \in 1..Len(requests) :
        requests[i].type = "http" =>
            IF IsClearCache(requests[i])
            THEN requests[i].method = "POST"
            ELSE /\ Carried(requests[i])[2].type = "query" =>
                       /\ requests[i].method = "GET"
                       /\ requests[i].url[2] = "?query="
                 /\ IsUpdate(Carried(requests[i])[2]) =>
                       /\ requests[i].method = "POST"
                       /\ requests[i].body[1] = "update="

\* C23: a runQuery that returns leaves the wrapper with an empty query and
\* no prefixes.
C23_BuffersClearedOnSuccess ==
    [][(wrapperRunQuery /\ returned'.kind = "returned")
          => (sparql'.query = NoQuery /\ sparql'.prefixes = <<>>)]_vars

\* C23 happens: a runQuery that carried a query and prefixes has returned,
\* and the wrapper holds neither.
C23_Witness ==
    /\ pc = "wrapper"
    /\ returned.kind = "returned"
    /\ sparql = EmptyWrapper
    /\ requests # <<>>
    /\ ~IsClearCache(requests[Len(requests)])
    /\ Carried(requests[Len(requests)])[1] # <<>>
    /\ Carried(requests[Len(requests)])[2] # NoQuery

\* C24: fetchNodeLocationsAsWkt fails with its size exception whenever the
\* endpoint answers with more locations than node ids were asked for.
AllLiterals == \A i \in 1..Len(results) : results[i].binding = "literal"

PositiveSuffixes == { <<"1">>, <<"2">> }
FetchedKind ==
    CASE pc = "fetchWayMembers" -> NODE_TAG
      [] pc = "fetchWaysReferencingNodes" -> WAY_TAG
      [] OTHER -> ""

C25_BadIdentifierRejected ==
    (/\ pc \in {"fetchWayMembers", "fetchWaysReferencingNodes"}
     /\ \A i \in 1..Len(results) :
           results[i].binding = "uri" /\ results[i].kind = FetchedKind) =>
        /\ (\E i \in 1..Len(results) : results[i].suffix \notin PositiveSuffixes) =>
              /\ returned.kind = "thrown"
              /\ returned.message = "Could extract way id from uri: "
        /\ returned.kind = "returned" =>
              \A i \in 1..Len(results) : results[i].suffix \in PositiveSuffixes

\* C27: the dummy of a way lists the node references in the order in which
\* the endpoint returned them, a repeated node as often as it was returned.
C27_DummyWayKeepsOrder ==
    (pc = "createDummyWay" /\ returned.kind = "returned") =>
        returned.detail.nd = [i \in 1..Len(results) |-> stoll(results[i].suffix).value]

\* C28: the dummy of a relation lists the members in the order of the
\* member list, each with its role, whatever their kinds.
C28_DummyRelationKeepsOrder ==
    pc = "createRelationFromReferences" =>
        returned.detail.member = [i \in 1..Len(results) |-> Member(results[i])]

\* C26: once the engine is constructed the four scratch files are empty,
\* whatever they held before, and at the end of the run every line of the
\* triples buffer is a line of this run's converter output.
C26_ScratchFilesTruncated ==
    /\ pc = "storeIdsOfElementsInChangeFile" =>
          /\ nodesFile = <<>> /\ waysFile = <<>> /\ relationsFile = <<>>
          /\ triplesFile = <<>>
    /\ pc = "done" =>
          \A k \in 1..Len(triplesFile) :
             \E i \in 1..Len(ttlOutput) : SameTriple(ttlOutput[i], triplesFile[k])

\* C26 happens: an engine has been constructed, its run has ended, and the
\* triples buffer holds lines.
C26_Witness ==
    /\ pc = "done"
    /\ triplesFile # <<>>

\* C29: after phase 4, every way the endpoint holds as a member of a
\* relation of referencedRelations or relationsToUpdateGeometry is in the
\* change file, in waysToUpdateGeometry or in referencedWays; and every node
\* the endpoint holds as a member of such a relation, or of a way of
\* referencedWays or waysToUpdateGeometry, is in the change file or in
\* referencedNodes.
ClosureRelations == referencedRelations \cup relationsToUpdateGeometry
ClosureWays == referencedWays \cup waysToUpdateGeometry
AfterPhase4 == Past("getReferencedNodes") /\ pc # "failed"

C29_ReferenceClosure ==
    AfterPhase4 =>
        \A e \in endpoint :
            /\ (/\ e.from.kind = RELATION_TAG /\ e.from.id \in ClosureRelations
                /\ e.to.kind = WAY_TAG) =>
                  e.to.id \in ChangeFileWays \cup waysToUpdateGeometry \cup referencedWays
            /\ (/\ e.to.kind = NODE_TAG
                /\ \/ e.from.kind = RELATION_TAG /\ e.from.id \in ClosureRelations
                   \/ e.from.kind = WAY_TAG /\ e.from.id \in ClosureWays) =>
                  e.to.id \in ChangeFileNodes \cup referencedNodes

\* C29 happens: after phase 4 the endpoint holds a way that is a member of
\* such a relation and is not in the change file.
C29_Witness ==
    /\ AfterPhase4
    /\ \E e \in endpoint :
         /\ e.from.kind = RELATION_TAG /\ e.from.id \in ClosureRelations
         /\ e.to.kind = WAY_TAG
         /\ e.to.id \notin ChangeFileWays \cup waysToUpdateGeometry
         /\ e.to.id \in referencedWays

\* C30: doInBatches(S, n, f) calls f ceil(|S| / n) times, none for the
\* empty set, on chunks that are pairwise disjoint, whose union is S, that
\* hold at most n ids, and exactly n but for the last.  Seen on the queries
\* of phase 3, one per call of the callback: those for the ways of the
\* modified nodes and those for the relations of the modified ways.
CallsOf(what) == SelectSeq(requests, LAMBDA q : q.what = what)

BatchesOf(calls, S, n) ==
    /\ Len(calls) = (Cardinality(S) + n - 1) \div n
    /\ \A i, j \in 1..Len(calls) : i # j => Disjoint(calls[i].ids, calls[j].ids)
    /\ UNION {calls[i].ids : i \in 1..Len(calls)} = S
    /\ \A i \in 1..Len(calls) :
          /\ Cardinality(calls[i].ids) <= n
          /\ i < Len(calls) => Cardinality(calls[i].ids) = n

C30_DoInBatches ==
    Past("getIdsForGeometryUpdate") =>
        /\ BatchesOf(CallsOf("WaysReferencingNodes"), modifiedNodes, maxPerQuery)
        /\ BatchesOf(CallsOf("RelationsReferencingWays"), modifiedWays, maxPerQuery)

\* C30 happens: phase 3 has split three modified nodes into a chunk of two
\* and a chunk of one, and has handed the empty set of modified ways to
\* doInBatches.
C30_Witness ==
    /\ Past("getIdsForGeometryUpdate")
    /\ maxPerQuery = 2
    /\ Cardinality(modifiedNodes) = 3
    /\ Len(CallsOf("WaysReferencingNodes")) = 2
    /\ modifiedWays = {}
    /\ waysToUpdateGeometry # {}

\* C31: when the run is done, the delete updates sent to the endpoint are
\* the node batches, then the way batches, then the relation batches, as
\* the callbacks built them, and no insert update was sent before a delete
\* update.
UpdatesOfType(type) == SelectSeq(requests, LAMBDA q : q.type = type)

C31_UpdateOrder ==
    pc = "done" =>
        /\ UpdatesOfType("delete") = DeleteQueries
        /\ \A i, j \in 1..Len(requests) :
              (requests[i].type = "insert" /\ requests[j].type = "delete") => j < i

\* C32: when the run is done, the insert updates sent to the endpoint are,
\* in order, the consecutive batches of at most maxPerQuery lines of the
\* triples buffer, one update per batch, so every line of the buffer is in
\* exactly one of them.
C32_OneInsertPerBatch ==
    pc = "done" =>
        LET sent == UpdatesOfType("insert")
            batches == TriplesBatches(triplesFile, maxPerQuery)
        IN  /\ Len(sent) = Len(batches)
            /\ \A b \in 1..Len(batches) :
                  /\ Len(batches[b]) <= maxPerQuery
                  /\ Len(sent[b].triples) = Len(batches[b])
                  /\ \A k \in 1..Len(batches[b]) :
                        SameTriple(sent[b].triples[k], batches[b][k])

\* C33: when phase 2 has returned, the scratch file of each kind holds one
\* entry per element of that kind of the modify and create sections, in the
\* order of the change file; every reference of such an element that is not
\* in the change file is in the referenced set of its kind; and the
\* referenced sets hold nothing but references of such elements, so the
\* delete sections add no entry and no id.
WrittenElements(kind) ==
    SelectSeq(osmChangeElement,
              LAMBDA e : e.section \in {MODIFY_TAG, CREATE_TAG} /\ e.kind = kind)

ScratchFile(kind) ==
    CASE kind = NODE_TAG -> nodesFile
      [] kind = WAY_TAG -> waysFile
      [] kind = RELATION_TAG -> relationsFile

ReferencedOf(kind) ==
    CASE kind = NODE_TAG -> referencedNodes
      [] kind = WAY_TAG -> referencedWays
      [] kind = RELATION_TAG -> referencedRelations

ChangeFileOf(kind) ==
    CASE kind = NODE_TAG -> ChangeFileNodes
      [] kind = WAY_TAG -> ChangeFileWays
      [] kind = RELATION_TAG -> ChangeFileRelations

WrittenReferences ==
    UNION {osmChangeElement[i].refs :
             i \in {j \in 1..Len(osmChangeElement) :
                      osmChangeElement[j].section \in {MODIFY_TAG, CREATE_TAG}}}

C33_Phase2Effect ==
    pc = "getIdsForGeometryUpdate" =>
        \A kind \in {NODE_TAG, WAY_TAG, RELATION_TAG} :
            LET written == WrittenElements(kind)
                file == ScratchFile(kind)
            IN  /\ Len(file) = Len(written)
                /\ \A i \in 1..Len(written) :
                      /\ file[i].id = written[i].id
                      /\ file[i].refs = written[i].refs
                      /\ ~file[i].dummy
                /\ \A r \in WrittenReferences :
                      (r.kind = kind /\ r.id \notin ChangeFileOf(kind)) =>
                          r.id \in ReferencedOf(kind)
                /\ \A id \in ReferencedOf(kind) :
                      \E r \in WrittenReferences : r.kind = kind /\ r.id = id

\* C33 happens: phase 2 has returned for a change file that holds a deleted
\* way or relation with a reference of its own and a modified or created
\* one whose reference went to a referenced set.
C33_Witness ==
    /\ pc = "getIdsForGeometryUpdate"
    /\ \E i \in 1..Len(osmChangeElement) :
         /\ osmChangeElement[i].section = DELETE_TAG
         /\ \E r \in osmChangeElement[i].refs : r \notin WrittenReferences
    /\ \E r \in WrittenReferences : r.id \in ReferencedOf(r.kind)
    /\ \E kind \in {WAY_TAG, RELATION_TAG} : ScratchFile(kind) # <<>>

\* C34: executed on a triple store, the delete query for the ids S of one
\* namespace removes every triple whose subject is one of the listed IRIs
\* and every triple whose subject is the object of such a triple, so none
\* with a listed subject remains in the store.
Listed(term, query) == term.ns = OsmNs(query.kind) /\ term.id \in query.ids

C34_DeleteStarAndOneHop ==
    pc = "executed" =>
        LET query == sparql.query
            before == store \cup removed
        IN  /\ \A t \in before : Listed(t.s, query) => t \in removed
            /\ \A t, u \in before :
                  (Listed(t.s, query) /\ u.s = t.o) => u \in removed
            /\ \A t \in store : ~Listed(t.s, query)
            /\ Disjoint(store, removed)

\* C34 happens: a delete query for way 1 has removed the way's link to its
\* member and the member's triple, one hop away.
C34_Witness ==
    /\ pc = "executed"
    /\ sparql.query.kind = WAY_TAG /\ sparql.query.ids = {1}
    /\ \E t, u \in removed : Listed(t.s, sparql.query) /\ u.s = t.o /\ u.s.ns = "_:"

\* C38: the delete query for the ids S of one kind removes no triple whose
\* subject is an OSM object that is not listed in S.
IsOsmObject(term) == term.ns \in {"osmnode:", "osmway:", "osmrel:"}

C38_OtherObjectsKept ==
    pc = "executed" =>
        \A t \in removed : IsOsmObject(t.s) => Listed(t.s, sparql.query)

\* C35: every step of the run that sends a read query to the endpoint or
\* writes the converter's output ends in a state in which no delete and no
\* insert update has been sent or set on _sparql; and in every state in
\* which the run has failed, none has been sent or set, so the endpoint is
\* as it was.
NoUpdateYet ==
    /\ ~IsUpdate(sparql.query)
    /\ \A i \in 1..Len(requests) : ~IsUpdate(requests[i])

C35_ReadsAndConversionFirst ==
    /\ [](pc = "failed" => NoUpdateYet)
    /\ [][(requests' # requests \/ ttlOutput' # ttlOutput) => NoUpdateYet']_vars

\* C35 happens: a run with a node to delete has read the endpoint and then
\* failed.
C35_Witness ==
    /\ pc = "failed"
    /\ requests # <<>>
    /\ deletedNodes \cup modifiedNodes # {}

\* C36: once createDummyNodes has returned, the nodes file holds exactly
\* one dummy node for every id of referencedNodes, and the dummy node for
\* id n carries the location the endpoint holds for n, in whatever order
\* the endpoint has listed the results.
DummiesOf(nodeId) ==
    {i \in 1..Len(nodesFile) : nodesFile[i].dummy /\ nodesFile[i].id = nodeId}

C36_DummyNodeLocations ==
    Past("createDummyNodes") =>
        /\ \A i \in 1..Len(nodesFile) :
              nodesFile[i].dummy => nodesFile[i].id \in referencedNodes
        /\ \A n \in referencedNodes :
              /\ Cardinality(DummiesOf(n)) = 1
              /\ \A i \in DummiesOf(n) : nodesFile[i].wkt = WktOf(n)

\* C37: every request that runQuery has sent carries the prefixes of one
\* call of setPrefixes at most, those of the most recent call, whatever
\* calls of setPrefixes, setQuery and runQuery came before it.
C37_OnlyLatestPrefixes ==
    \A i \in 1..Len(requests) :
        (requests[i].type = "http" /\ ~IsClearCache(requests[i])) =>
            Carried(requests[i])[1] \in {<<>>, <<"DEFAULT_PREFIXES">>}

\* C39: a step of sortFile on the nodes file leaves the same lines in it,
\* each as often as before, in ascending order of their ids, also for ids
\* that an int does not hold.
SameLines(before, after) ==
    /\ Len(before) = Len(after)
    /\ \A line \in Range(before) \cup Range(after) :
          Cardinality({i \in 1..Len(before) : before[i] = line})
            = Cardinality({i \in 1..Len(after) : after[i] = line})

Ascending(lines) ==
    \A i, j \in 1..Len(lines) : i < j => lines[i].id <= lines[j].id

C39_SortFileAscending ==
    [][(pc = "sortFile_node" /\ pc' = "sortFile_way") =>
          (SameLines(nodesFile, nodesFile') /\ Ascending(nodesFile'))]_vars

\* C40: fetchDatabaseStateForTimestamp asks for the latest state first and
\* then for one sequence number less with each request, never for a
\* negative one, and the state it returns is the one with the highest
\* sequence number whose timestamp is not greater than the given one.
C40_StateForTimestamp ==
    /\ \A i \in 1..Len(requests) :
          IF i = 1 THEN requests[i] = LatestStateRequest
          ELSE /\ requests[i].type = "<n>.state.txt"
               /\ requests[i].sequenceNumber >= 0
               /\ requests[i].sequenceNumber = LatestOf(server) - (i - 1)
    /\ pc = "return" =>
          /\ returned.detail.timeStamp <= timeStamp
          /\ returned.detail.timeStamp = server[returned.detail.sequenceNumber]
          /\ \A n \in DOMAIN server :
                server[n] <= timeStamp => n <= returned.detail.sequenceNumber

====
